---------------------------- MODULE Spec2Model ----------------------------
(***************************************************************************)
(* A model of the lesson scripts of the Python-MAAB homework repository:   *)
(*   - Bank.transfer with rollback       (lesson 9 and lesson 10)          *)
(*   - threaded_word_count, threaded_primes, split_range (lesson 12)       *)
(*   - BinarySearchTree                  (lesson 9)                        *)
(*   - RosterDatabase                    (lesson 15)                       *)
(* The scripts share no state, so each has its own specification over its  *)
(* own variables; the variables of the other scripts stay at their initial *)
(* values.                                                                 *)
(***************************************************************************)
EXTENDS Integers, Sequences, FiniteSets, TLC

VARIABLES
    lesson,      \* which bank script runs: 9 or 10
    bank9,       \* lesson 9  Bank._accounts: account_id -> [balance]
    bank10,      \* lesson 10 Bank._accounts: number -> [balance, overdraft_limit]
    bankCall,    \* the last Bank call and its arguments
    bankPre,     \* _accounts as it was when the last call started
    bankExc,     \* how the last call ended: "none" (returned) or the exception
    \* threaded_word_count (lesson 12)
    wcFile,      \* the lines of the file at path
    wcCfg,       \* WordCountConfig: [threads, queue_maxsize]
    q,           \* queue.Queue: the items waiting, oldest first
    unfinished,  \* queue.Queue.unfinished_tasks (what q.join() waits for)
    mainPc,      \* where the calling thread is
    mainIdx,     \* the calling thread's loop counter
    wpc,         \* where each worker thread is
    cur,         \* the item each worker took last
    local,       \* each worker's local Counter
    results,     \* the results list
    total,       \* the merged Counter
    taken,       \* history: how many lines each worker has taken
    writes,      \* history: per slot of results, the workers that wrote it
    \* threaded_primes (lesson 12)
    prArgs,      \* the arguments [lo, hi, threads]
    prPc,        \* where the call is
    ranges,      \* the PrimeJob list
    futures,     \* the futures as_completed has not yielded yet (by job index)
    primes,      \* the primes list
    \* BinarySearchTree (lesson 9)
    on_duplicate, \* the policy the tree was built with
    root,        \* BinarySearchTree.root: a node reference, 0 for None
    nodes,       \* the BSTNode objects, by reference: [key, left, right, count]
    bstCall,     \* the last call
    bstPre,      \* [root, nodes] when the last call started
    bstExc,      \* how the last call ended
    inserted,    \* history: how many times insert was called with each key
    \* RosterDatabase (lesson 15)
    roster,      \* the Roster table: id -> [Name, Species, Age]
    sqlite_sequence, \* the largest id AUTOINCREMENT has given out
    dbCall,      \* the last call
    dbPre,       \* the Roster table when the last call started
    dbExc,       \* how the last call ended
    dbRet,       \* the id of the member the last create returned (0: none)
    \* ToDoList (lesson 10)
    _tasks,      \* ToDoList._tasks: id -> [title, status]
    _next_id,    \* ToDoList._next_id
    _modified,   \* ToDoList._modified
    todoFile,    \* todo_data.json: what save_to_file wrote last
    todoCall,    \* the last call
    todoPre,     \* _tasks when the last call started
    todoRet,     \* what the last call gave back
    \* BooksDatabase (lesson 14)
    books,       \* BooksDatabase.books: the list of [id, title, author, year]
    books_next_id, \* BooksDatabase._next_id
    booksFile,   \* the list the JSON file holds
    bkCall,      \* the last call
    bkPre,       \* books when the last call started
    bkExc,       \* how the last call ended
    \* API rate limiting (lesson 14)
    now,         \* time.time(), in seconds
    API_CALL_TRACKER, \* API_CALL_TRACKER["openweather"]: the recorded times
    issued,      \* history: the times of the requests of the last minute
    rlPre,       \* the tracker when the last request started
    rlTime,      \* the time when the last request started
    rlRet,       \* what check_rate_limit returned for the last request
    \* MovieRecommendationSystem (lesson 14)
    history,     \* MovieRecommendationSystem.history
    returned,    \* history variable: the titles returned since the last reset
    mvCall,      \* the last call
    mvPre,       \* history when the last call started
    mvRet,       \* the title of the movie the last call returned
    \* calculate_age (lesson 13)
    bd,          \* the birthdate passed
    on_date,     \* the reference date passed
    agePc,       \* which of the two functions has been called
    ageOut,      \* the AgeBreakdown calculate_age returned, or its exception
    until,       \* what days_until_next_birthday returned
    \* ShoppingCart (lesson 9)
    _items,          \* name -> CartItem
    _strict_price,   \* the strict_price the cart was built with
    cartCall,        \* the last call and its arguments
    cartPre,         \* _items before the last call
    cartExc,         \* the exception the last call raised, or "none"
    cartRet,         \* what the last total() returned, in hundredths
    \* split_range called on its own (lesson 12)
    srArgs,   \* the lo, hi and parts passed
    srPc,     \* "call" before the call, "done" after it
    srRet     \* the list returned, or the exception raised

bankVars == <<lesson, bank9, bank10, bankCall, bankPre, bankExc>>

wcVars == <<wcFile, wcCfg, q, unfinished, mainPc, mainIdx, wpc, cur, local,
            results, total, taken, writes>>

primeVars == <<prArgs, prPc, ranges, futures, primes>>

bstVars == <<on_duplicate, root, nodes, bstCall, bstPre, bstExc, inserted>>

dbVars == <<roster, sqlite_sequence, dbCall, dbPre, dbExc, dbRet>>

todoVars == <<_tasks, _next_id, _modified, todoFile, todoCall, todoPre,
    todoRet>>

booksVars == <<books, books_next_id, booksFile, bkCall, bkPre, bkExc>>

rateVars == <<now, API_CALL_TRACKER, issued, rlPre, rlTime, rlRet>>

movieVars == <<history, returned, mvCall, mvPre, mvRet>>

ageVars == <<bd, on_date, agePc, ageOut, until>>

cartVars == <<_items, _strict_price, cartCall, cartPre, cartExc, cartRet>>

splitVars == <<srArgs, srPc, srRet>>

vars == <<bankVars, wcVars, primeVars, bstVars, dbVars, todoVars, booksVars,
    rateVars, movieVars, ageVars, cartVars, splitVars>>

nonBankVars == <<wcVars, primeVars, bstVars, dbVars, todoVars, booksVars,
    rateVars, movieVars, ageVars, cartVars, splitVars>>
nonWcVars == <<bankVars, primeVars, bstVars, dbVars, todoVars, booksVars,
    rateVars, movieVars, ageVars, cartVars, splitVars>>
nonPrimeVars == <<bankVars, wcVars, bstVars, dbVars, todoVars, booksVars,
    rateVars, movieVars, ageVars, cartVars, splitVars>>
nonBstVars == <<bankVars, wcVars, primeVars, dbVars, todoVars, booksVars,
    rateVars, movieVars, ageVars, cartVars, splitVars>>
nonDbVars == <<bankVars, wcVars, primeVars, bstVars, todoVars, booksVars,
    rateVars, movieVars, ageVars, cartVars, splitVars>>
nonTodoVars == <<bankVars, wcVars, primeVars, bstVars, dbVars, booksVars,
    rateVars, movieVars, ageVars, cartVars, splitVars>>
nonBooksVars == <<bankVars, wcVars, primeVars, bstVars, dbVars, todoVars,
    rateVars, movieVars, ageVars, cartVars, splitVars>>
nonRateVars == <<bankVars, wcVars, primeVars, bstVars, dbVars, todoVars,
    booksVars, movieVars, ageVars, cartVars, splitVars>>
nonMovieVars == <<bankVars, wcVars, primeVars, bstVars, dbVars, todoVars,
    booksVars, rateVars, ageVars, cartVars, splitVars>>
nonAgeVars == <<bankVars, wcVars, primeVars, bstVars, dbVars, todoVars,
    booksVars, rateVars, movieVars, cartVars, splitVars>>
nonCartVars == <<bankVars, wcVars, primeVars, bstVars, dbVars, todoVars,
    booksVars, rateVars, movieVars, ageVars, splitVars>>
nonSplitVars == <<bankVars, wcVars, primeVars, bstVars, dbVars, todoVars,
    booksVars, rateVars, movieVars, ageVars, cartVars>>

(***************************************************************************)
(* Bounds                                                                  *)
(***************************************************************************)
\* Largest amount and largest opening balance drawn as an input (in cents).
MaxAmount == 2

\* Account ids the callers use; an id is unknown until its account is opened.
AccountIds == {1, 2, 3}
OverdraftLimits == {0, 1}

\* Amounts the callers pass; 0 is the amount that is not positive.
Amounts == 0 .. MaxAmount

\* Longest file, in lines.
MaxLines == 2
\* Largest thread count and largest queue capacity a caller configures.
MaxThreads == 2
MaxQueue == 2
\* 0 threads is the count that is rejected; queue.Queue treats a maxsize <= 0
\* as no limit.
ThreadCounts == 0 .. MaxThreads
QueueSizes == 0 .. MaxQueue
\* Range ends a caller passes to threaded_primes and split_range.
MaxN == 50
PrimeEnds == (-1) .. MaxN
\* Largest key inserted into a tree, and the most insert calls on one tree.
MaxKey == 3
MaxInserts == 4
\* The most members created in one database.
MaxCreates == 2
\* The most tasks added to one todo file.
MaxTasks == 3
\* The most books created in one database.
MaxBooks == 2
\* How long the clock of the rate limiter runs, in seconds.
MaxTime == 130
\* The longest history from which a recommendation is still asked for.
MaxHistory == 4
\* How many years after the birth year the reference dates reach.
MaxSpan == 3
\* The largest quantity of one item in the cart, and in one add_item call.
MaxQuantity == 2
\* The largest range end and the largest number of parts given to
\* split_range.
MaxEnd == 5
MaxParts == 4
\* Lines a file is made of, as sequences of characters.
SampleLines == { <<"a", " ", "B", "\n">>, <<"b", ",", "A">> }

NoCall == [op |-> "none"]
EmptyBank == << >>

(***************************************************************************)
(* Lesson 9: Account and Bank.  Balances are Decimals; sums and            *)
(* differences of the amounts used here are exact in the decimal context   *)
(* (28 digits), so they are modelled as integer arithmetic on cents.       *)
(* credit_raises stands for the Decimal addition in deposit signalling a   *)
(* trapped condition (decimal.Overflow, decimal.InvalidOperation).         *)
(***************************************************************************)
Raise(acc, exc) == [acc |-> acc, exc |-> exc]
Return(acc) == [acc |-> acc, exc |-> "none"]

Deposit9(acc, amount, add_raises) ==
    IF amount <= 0 THEN Raise(acc, "ValueError")
    ELSE IF add_raises THEN Raise(acc, "DecimalException")
    ELSE Return([acc EXCEPT !.balance = acc.balance + amount])

Withdraw9(acc, amount) ==
    IF amount <= 0 THEN Raise(acc, "ValueError")
    ELSE IF acc.balance < amount THEN Raise(acc, "InsufficientFundsError")
    ELSE Return([acc EXCEPT !.balance = acc.balance - amount])

Outcome(accounts, exc) == [accounts |-> accounts, exc |-> exc]

CreateAccount9(accounts, account_id, initial) ==
    IF account_id \in DOMAIN accounts
    THEN Outcome(accounts, "DuplicateAccountError")
    ELSE IF initial < 0 THEN Outcome(accounts, "ValueError")
    ELSE Outcome([i \in DOMAIN accounts \cup {account_id} |->
                    IF i = account_id THEN [balance |-> initial] ELSE accounts[i]],
                 "none")

\* Bank.transfer of lesson 9 without the existence checks before the debit.
Transfer9_LateLookup(accounts, from_id, to_id, amount, credit_raises) ==
    IF amount <= 0 THEN Outcome(accounts, "ValueError")
    ELSE IF from_id \notin DOMAIN accounts
    THEN Outcome(accounts, "AccountNotFoundError")
    ELSE LET w == Withdraw9(accounts[from_id], amount) IN
         IF w.exc # "none" THEN Outcome(accounts, w.exc)
         ELSE LET debited == [accounts EXCEPT ![from_id] = w.acc] IN
              IF to_id \notin DOMAIN accounts
              THEN Outcome(debited, "AccountNotFoundError")
              ELSE LET d == Deposit9(debited[to_id], amount, credit_raises) IN
                   IF d.exc = "none"
                   THEN Outcome([debited EXCEPT ![to_id] = d.acc], "none")
                   ELSE Outcome(accounts, "RuntimeError")

\* Bank.transfer of lesson 9 crediting the source instead of the destination.
Transfer9_CreditsSource(accounts, from_id, to_id, amount, credit_raises) ==
    IF amount <= 0 THEN Outcome(accounts, "ValueError")
    ELSE IF from_id \notin DOMAIN accounts \/ to_id \notin DOMAIN accounts
    THEN Outcome(accounts, "AccountNotFoundError")
    ELSE LET w == Withdraw9(accounts[from_id], amount) IN
         IF w.exc # "none" THEN Outcome(accounts, w.exc)
         ELSE Outcome(accounts, "none")

Transfer9(accounts, from_id, to_id, amount, credit_raises) ==
    IF amount <= 0 THEN Outcome(accounts, "ValueError")
    ELSE IF from_id \notin DOMAIN accounts
    THEN Outcome(accounts, "AccountNotFoundError")      \* src = get_account(from_id)
    ELSE IF to_id \notin DOMAIN accounts
    THEN Outcome(accounts, "AccountNotFoundError")      \* dst = get_account(to_id)
    ELSE LET w == Withdraw9(accounts[from_id], amount) IN
         IF w.exc # "none" THEN Outcome(accounts, w.exc)
         ELSE LET debited == [accounts EXCEPT ![from_id] = w.acc]
                  d == Deposit9(debited[to_id], amount, credit_raises) IN
              IF d.exc = "none"
              THEN Outcome([debited EXCEPT ![to_id] = d.acc], "none")
              ELSE \* except Exception: src.deposit(amount); raise RuntimeError
                   LET r == Deposit9(debited[from_id], amount, FALSE) IN
                   IF r.exc = "none"
                   THEN Outcome([debited EXCEPT ![from_id] = r.acc], "RuntimeError")
                   ELSE Outcome(debited, r.exc)

(***************************************************************************)
(* Lesson 10: Account (with overdraft) and Bank.                           *)
(***************************************************************************)
Deposit10(acc, amount, add_raises) ==
    IF amount <= 0 THEN Raise(acc, "ValueError")
    ELSE IF add_raises THEN Raise(acc, "DecimalException")
    ELSE Return([acc EXCEPT !.balance = acc.balance + amount])

Withdraw10(acc, amount) ==
    IF amount <= 0 THEN Raise(acc, "ValueError")
    ELSE LET new_balance == acc.balance - amount IN
         IF new_balance < -acc.overdraft_limit
         THEN Raise(acc, "InsufficientFundsError")
         ELSE Return([acc EXCEPT !.balance = new_balance])

AddAccount10(accounts, number, balance, overdraft_limit) ==
    IF number \in DOMAIN accounts
    THEN Outcome(accounts, "DuplicateAccountError")
    ELSE Outcome([i \in DOMAIN accounts \cup {number} |->
                    IF i = number
                    THEN [balance |-> balance, overdraft_limit |-> overdraft_limit]
                    ELSE accounts[i]],
                 "none")

\* Bank.transfer of lesson 10 with the rollback left out.
Transfer10_NoRollback(accounts, from_id, to_id, amount, credit_raises) ==
    IF amount <= 0 THEN Outcome(accounts, "ValueError")
    ELSE IF from_id \notin DOMAIN accounts \/ to_id \notin DOMAIN accounts
    THEN Outcome(accounts, "AccountNotFoundError")
    ELSE LET w == Withdraw10(accounts[from_id], amount) IN
         IF w.exc # "none" THEN Outcome(accounts, w.exc)
         ELSE LET debited == [accounts EXCEPT ![from_id] = w.acc]
                  d == Deposit10(debited[to_id], amount, credit_raises) IN
              IF d.exc = "none"
              THEN Outcome([debited EXCEPT ![to_id] = d.acc], "none")
              ELSE Outcome(debited, "RuntimeError")

Transfer10(accounts, from_id, to_id, amount, credit_raises) ==
    IF amount <= 0 THEN Outcome(accounts, "ValueError")
    ELSE IF from_id \notin DOMAIN accounts
    THEN Outcome(accounts, "AccountNotFoundError")      \* src = self.get(from_id)
    ELSE IF to_id \notin DOMAIN accounts
    THEN Outcome(accounts, "AccountNotFoundError")      \* dst = self.get(to_id)
    ELSE LET original_src_balance == accounts[from_id].balance
             w == Withdraw10(accounts[from_id], amount) IN
         IF w.exc # "none" THEN Outcome(accounts, w.exc)
         ELSE LET debited == [accounts EXCEPT ![from_id] = w.acc]
                  d == Deposit10(debited[to_id], amount, credit_raises) IN
              IF d.exc = "none"
              THEN Outcome([debited EXCEPT ![to_id] = d.acc], "none")
              ELSE \* except Exception: src.balance = original_src_balance
                   Outcome([debited EXCEPT ![from_id].balance = original_src_balance],
                           "RuntimeError")

(***************************************************************************)
(* Bank actions                                                            *)
(***************************************************************************)
BankInit ==
    /\ lesson \in {9, 10}
    /\ bank9 = EmptyBank
    /\ bank10 = EmptyBank
    /\ bankCall = NoCall
    /\ bankPre = EmptyBank
    /\ bankExc = "none"

CreateAccountCall9 ==
    /\ lesson = 9
    /\ \E account_id \in AccountIds, initial \in (-1) .. MaxAmount :
          LET out == CreateAccount9(bank9, account_id, initial) IN
          /\ bank9' = out.accounts
          /\ bankExc' = out.exc
          /\ bankPre' = bank9
          /\ bankCall' = [op |-> "create_account", account_id |-> account_id]
    /\ UNCHANGED <<lesson, bank10>>
    /\ UNCHANGED nonBankVars

AddAccountCall10 ==
    /\ lesson = 10
    /\ \E number \in AccountIds, balance \in 0 .. MaxAmount,
          overdraft_limit \in OverdraftLimits :
          LET out == AddAccount10(bank10, number, balance, overdraft_limit) IN
          /\ bank10' = out.accounts
          /\ bankExc' = out.exc
          /\ bankPre' = bank10
          /\ bankCall' = [op |-> "add_account", number |-> number]
    /\ UNCHANGED <<lesson, bank9>>
    /\ UNCHANGED nonBankVars

\* deposit on the destination can signal only when it is another account than
\* the source: re-adding the amount just withdrawn gives back the prior balance.
TransferCall9(faults) ==
    /\ lesson = 9
    /\ \E from_id \in AccountIds, to_id \in AccountIds,
          amount \in Amounts, credit_raises \in faults :
          /\ credit_raises => from_id # to_id
          /\ LET out == Transfer9(bank9, from_id, to_id, amount, credit_raises) IN
             /\ bank9' = out.accounts
             /\ bankExc' = out.exc
             /\ bankPre' = bank9
             /\ bankCall' = [op |-> "transfer", from_id |-> from_id, to_id |-> to_id,
                             amount |-> amount, credit_raises |-> credit_raises]
    /\ UNCHANGED <<lesson, bank10>>
    /\ UNCHANGED nonBankVars

TransferCall10(faults) ==
    /\ lesson = 10
    /\ \E from_id \in AccountIds, to_id \in AccountIds,
          amount \in Amounts, credit_raises \in faults :
          /\ credit_raises => from_id # to_id
          /\ LET out == Transfer10(bank10, from_id, to_id, amount, credit_raises) IN
             /\ bank10' = out.accounts
             /\ bankExc' = out.exc
             /\ bankPre' = bank10
             /\ bankCall' = [op |-> "transfer", from_id |-> from_id, to_id |-> to_id,
                             amount |-> amount, credit_raises |-> credit_raises]
    /\ UNCHANGED <<lesson, bank9>>
    /\ UNCHANGED nonBankVars

Transfer9Returns == TransferCall9({FALSE})
Transfer10Returns == TransferCall10({FALSE})
Transfer9MayFail == TransferCall9(BOOLEAN)
Transfer10MayFail == TransferCall10(BOOLEAN)

BankNext ==
    \/ CreateAccountCall9
    \/ AddAccountCall10
    \/ Transfer9Returns
    \/ Transfer10Returns

BankFaultNext ==
    \/ CreateAccountCall9
    \/ AddAccountCall10
    \/ Transfer9MayFail
    \/ Transfer10MayFail

(***************************************************************************)
(* Claims about Bank.transfer                                              *)
(***************************************************************************)
\* _accounts of the script that runs.
Accounts == IF lesson = 9 THEN bank9 ELSE bank10

RECURSIVE SumBalances(_, _)
SumBalances(accounts, ids) ==
    IF ids = {} THEN 0
    ELSE LET i == CHOOSE x \in ids : TRUE IN
         accounts[i].balance + SumBalances(accounts, ids \ {i})

TotalBalance(accounts) == SumBalances(accounts, DOMAIN accounts)

IsTransfer == bankCall.op = "transfer"

BothExist ==
    /\ bankCall.from_id \in DOMAIN bankPre
    /\ bankCall.to_id \in DOMAIN bankPre

\* The source can cover the amount: balance >= amount in lesson 9,
\* balance - amount >= -overdraft_limit in lesson 10.
CanCover ==
    LET src == bankPre[bankCall.from_id] IN
    IF lesson = 9 THEN src.balance >= bankCall.amount
    ELSE src.balance - bankCall.amount >= -src.overdraft_limit

CreditRaised ==
    /\ IsTransfer /\ BothExist /\ bankCall.amount > 0 /\ CanCover
    /\ bankCall.credit_raises

\* C2: when crediting the destination raises after the source was debited,
\* the source balance is back at its value before the call, the destination
\* balance is unchanged and the caller gets a RuntimeError.
C2_RollbackRestoresSource ==
    CreditRaised
    => /\ bankExc = "RuntimeError"
       /\ Accounts[bankCall.from_id].balance = bankPre[bankCall.from_id].balance
       /\ Accounts[bankCall.to_id].balance = bankPre[bankCall.to_id].balance
       /\ Accounts = bankPre

\* A lesson 9 transfer whose credit raised after a debit.
C2_Witness ==
    /\ lesson = 9
    /\ CreditRaised
    /\ bankExc = "RuntimeError"
    /\ bankPre[bankCall.from_id].balance >= bankCall.amount

\* C3: a transfer that raises ValueError, AccountNotFoundError or
\* InsufficientFundsError leaves every account as it was; the amount is
\* checked first, then the existence of both accounts, then the funds, all
\* before any balance is written.
C3_RejectedTransferChangesNothing ==
    IsTransfer =>
       /\ bankExc \in {"ValueError", "AccountNotFoundError", "InsufficientFundsError"}
             => Accounts = bankPre
       /\ bankCall.amount <= 0 => bankExc = "ValueError"
       /\ (bankCall.amount > 0 /\ ~BothExist) => bankExc = "AccountNotFoundError"
       /\ (bankCall.amount > 0 /\ BothExist /\ ~CanCover)
             => bankExc = "InsufficientFundsError"

\* The destination is unknown while the source exists and could have paid.
C3_Witness ==
    /\ IsTransfer
    /\ bankExc = "AccountNotFoundError"
    /\ bankCall.from_id \in DOMAIN bankPre
    /\ bankCall.to_id \notin DOMAIN bankPre
    /\ bankCall.amount > 0
    /\ CanCover
    /\ Accounts = bankPre


(***************************************************************************)
(* Lesson 12: tokenize_to_words and Counter                                *)
(***************************************************************************)
\* The characters \w matches, among those of SampleLines.
WordChars == {"a", "A", "b", "B"}

\* str.casefold on one character.
Casefold(c) ==
    CASE c = "A" -> "a"
      [] c = "B" -> "b"
      [] OTHER -> c

\* _WORD_RE.findall(text): the maximal runs of word characters, left to right.
RECURSIVE FindAll(_, _, _)
FindAll(text, word, found) ==
    IF text = << >>
    THEN IF word = << >> THEN found ELSE Append(found, word)
    ELSE IF Head(text) \in WordChars
    THEN FindAll(Tail(text), Append(word, Head(text)), found)
    ELSE FindAll(Tail(text), << >>,
                 IF word = << >> THEN found ELSE Append(found, word))

tokenize_to_words(text) ==
    LET ws == FindAll(text, << >>, << >>) IN
    [k \in 1 .. Len(ws) |-> [j \in 1 .. Len(ws[k]) |-> Casefold(ws[k][j])]]

\* A Counter is a function from the keys it holds to their counts.
EmptyCounter == << >>

CounterGet(c, w) == IF w \in DOMAIN c THEN c[w] ELSE 0

\* Counter.update(iterable): one more for every element.
RECURSIVE CounterUpdate(_, _)
CounterUpdate(c, ws) ==
    IF ws = << >> THEN c
    ELSE CounterUpdate([w \in DOMAIN c \cup {Head(ws)} |->
                          CounterGet(c, w) + (IF w = Head(ws) THEN 1 ELSE 0)],
                       Tail(ws))

\* Counter.update(mapping): the counts of the other Counter are added.
CounterMerge(c, d) ==
    [w \in DOMAIN c \cup DOMAIN d |-> CounterGet(c, w) + CounterGet(d, w)]

(***************************************************************************)
(* Lesson 12: threaded_word_count and _wordcount_worker                    *)
(***************************************************************************)
\* The sentinel: a value no line of a file equals.
None == <<"None">>

Workers == 1 .. wcCfg.threads

\* A queue that is never full, whatever its maxsize.
QueueFull_Never == FALSE

\* queue.Queue(maxsize): full when maxsize > 0 and that many items wait.
QueueFull == wcCfg.queue_maxsize > 0 /\ Len(q) >= wcCfg.queue_maxsize

\* Every worker given the first slot of results.
WorkerIdx_First(i) == 1

\* The slot a worker was given: Thread(target=_wordcount_worker, args=(i, q, results)).
WorkerIdx(i) == i

\* A producer that sends one sentinel fewer than there are workers.
SentinelCount_OneShort == wcCfg.threads - 1

\* How many sentinels the producer sends: for _ in range(cfg.threads).
SentinelCount == wcCfg.threads

\* A join that returns without waiting for the thread.
ThreadJoined_NoWait(i) == TRUE

\* t.join() returns once the thread has run to its end.
ThreadJoined(i) == wpc[i] = "exited"

Files == UNION { [1 .. n -> SampleLines] : n \in 0 .. MaxLines }

WcInit ==
    /\ wcFile \in Files
    /\ wcCfg \in [threads : ThreadCounts, queue_maxsize : QueueSizes]
    /\ q = << >>
    /\ unfinished = 0
    /\ mainPc = "check"
    /\ mainIdx = 0
    /\ wpc = [i \in 1 .. wcCfg.threads |-> "unstarted"]
    /\ cur = [i \in 1 .. wcCfg.threads |-> None]
    /\ local = [i \in 1 .. wcCfg.threads |-> EmptyCounter]
    /\ results = << >>
    /\ total = EmptyCounter
    /\ taken = [i \in 1 .. wcCfg.threads |-> 0]
    /\ writes = [i \in 1 .. wcCfg.threads |-> << >>]

\* if cfg.threads <= 0: raise ValueError; else create the queue and results.
CheckThreads ==
    /\ mainPc = "check"
    /\ IF wcCfg.threads <= 0
       THEN /\ mainPc' = "ValueError"
            /\ UNCHANGED results
       ELSE /\ mainPc' = "start"
            /\ results' = [i \in 1 .. wcCfg.threads |-> EmptyCounter]
    /\ UNCHANGED <<wcFile, wcCfg, q, unfinished, mainIdx, wpc, cur, local, total,
                   taken, writes>>
    /\ UNCHANGED nonWcVars

\* for i in range(cfg.threads): t.start()
StartWorker ==
    /\ mainPc = "start"
    /\ IF mainIdx < wcCfg.threads
       THEN /\ wpc' = [wpc EXCEPT ![mainIdx + 1] = "get"]
            /\ mainIdx' = mainIdx + 1
            /\ UNCHANGED mainPc
       ELSE /\ mainPc' = "produce"
            /\ mainIdx' = 0
            /\ UNCHANGED wpc
    /\ UNCHANGED <<wcFile, wcCfg, q, unfinished, cur, local, results, total,
                   taken, writes>>
    /\ UNCHANGED nonWcVars

\* for line in f: q.put(line)   (put blocks while the queue is full)
PutLine ==
    /\ mainPc = "produce"
    /\ IF mainIdx < Len(wcFile)
       THEN /\ ~QueueFull
            /\ q' = Append(q, wcFile[mainIdx + 1])
            /\ unfinished' = unfinished + 1
            /\ mainIdx' = mainIdx + 1
            /\ UNCHANGED mainPc
       ELSE /\ mainPc' = "sentinels"
            /\ mainIdx' = 0
            /\ UNCHANGED <<q, unfinished>>
    /\ UNCHANGED <<wcFile, wcCfg, wpc, cur, local, results, total, taken, writes>>
    /\ UNCHANGED nonWcVars

\* for _ in range(cfg.threads): q.put(None)
PutSentinel ==
    /\ mainPc = "sentinels"
    /\ IF mainIdx < SentinelCount
       THEN /\ ~QueueFull
            /\ q' = Append(q, None)
            /\ unfinished' = unfinished + 1
            /\ mainIdx' = mainIdx + 1
            /\ UNCHANGED mainPc
       ELSE /\ mainPc' = "qjoin"
            /\ mainIdx' = 0
            /\ UNCHANGED <<q, unfinished>>
    /\ UNCHANGED <<wcFile, wcCfg, wpc, cur, local, results, total, taken, writes>>
    /\ UNCHANGED nonWcVars

\* q.join(): returns when every item put has been marked done.
QueueJoin ==
    /\ mainPc = "qjoin"
    /\ unfinished = 0
    /\ mainPc' = "tjoin"
    /\ mainIdx' = 0
    /\ UNCHANGED <<wcFile, wcCfg, q, unfinished, wpc, cur, local, results, total,
                   taken, writes>>
    /\ UNCHANGED nonWcVars

\* for t in workers: t.join()
JoinWorker ==
    /\ mainPc = "tjoin"
    /\ IF mainIdx < wcCfg.threads
       THEN /\ ThreadJoined(mainIdx + 1)
            /\ mainIdx' = mainIdx + 1
            /\ UNCHANGED mainPc
       ELSE /\ mainPc' = "merge"
            /\ mainIdx' = 0
    /\ UNCHANGED <<wcFile, wcCfg, q, unfinished, wpc, cur, local, results, total,
                   taken, writes>>
    /\ UNCHANGED nonWcVars

\* for c in results: total.update(c); return total
Merge ==
    /\ mainPc = "merge"
    /\ IF mainIdx < Len(results)
       THEN /\ total' = CounterMerge(total, results[mainIdx + 1])
            /\ mainIdx' = mainIdx + 1
            /\ UNCHANGED mainPc
       ELSE /\ mainPc' = "done"
            /\ UNCHANGED <<total, mainIdx>>
    /\ UNCHANGED <<wcFile, wcCfg, q, unfinished, wpc, cur, local, results,
                   taken, writes>>
    /\ UNCHANGED nonWcVars

\* line = q.get(); a line goes into the local Counter at once (the Counter is
\* the worker's own, so nothing else can see when).
WorkerGet(i) ==
    /\ i \in Workers
    /\ wpc[i] = "get"
    /\ q # << >>
    /\ q' = Tail(q)
    /\ cur' = [cur EXCEPT ![i] = Head(q)]
    /\ IF Head(q) = None
       THEN /\ wpc' = [wpc EXCEPT ![i] = "sentinel_done"]
            /\ UNCHANGED <<local, taken>>
       ELSE /\ wpc' = [wpc EXCEPT ![i] = "task_done"]
            /\ local' = [local EXCEPT ![i] = CounterUpdate(@, tokenize_to_words(Head(q)))]
            /\ taken' = [taken EXCEPT ![i] = @ + 1]
    /\ UNCHANGED <<wcFile, wcCfg, unfinished, mainPc, mainIdx, results, total, writes>>
    /\ UNCHANGED nonWcVars

\* q.task_done() after a line, then back to q.get(); after the sentinel, break.
WorkerTaskDone(i) ==
    /\ i \in Workers
    /\ wpc[i] \in {"task_done", "sentinel_done"}
    /\ unfinished' = unfinished - 1
    /\ wpc' = [wpc EXCEPT ![i] = IF wpc[i] = "task_done" THEN "get" ELSE "store"]
    /\ UNCHANGED <<wcFile, wcCfg, q, mainPc, mainIdx, cur, local, results, total,
                   taken, writes>>
    /\ UNCHANGED nonWcVars

\* results[idx] = local, and the thread ends.
WorkerStore(i) ==
    /\ i \in Workers
    /\ wpc[i] = "store"
    /\ results' = [results EXCEPT ![WorkerIdx(i)] = local[i]]
    /\ writes' = [writes EXCEPT ![WorkerIdx(i)] = Append(@, i)]
    /\ wpc' = [wpc EXCEPT ![i] = "exited"]
    /\ UNCHANGED <<wcFile, wcCfg, q, unfinished, mainPc, mainIdx, cur, local, total,
                   taken>>
    /\ UNCHANGED nonWcVars

MainStep ==
    \/ CheckThreads
    \/ StartWorker
    \/ PutLine
    \/ PutSentinel
    \/ QueueJoin
    \/ JoinWorker
    \/ Merge

WorkerStep(i) ==
    \/ WorkerGet(i)
    \/ WorkerTaskDone(i)
    \/ WorkerStore(i)

WcNext ==
    \/ MainStep
    \/ \E i \in Workers : WorkerStep(i)


(***************************************************************************)
(* Claims about threaded_word_count                                        *)
(***************************************************************************)
RECURSIVE AllWords(_)
AllWords(lines) ==
    IF lines = << >> THEN << >>
    ELSE tokenize_to_words(Head(lines)) \o AllWords(Tail(lines))

\* What tokenize_to_words yields over all lines of the file, counted.
ExpectedCounts == CounterUpdate(EmptyCounter, AllWords(wcFile))

RECURSIVE SumOver(_, _)
SumOver(f, ids) ==
    IF ids = {} THEN 0
    ELSE LET i == CHOOSE x \in ids : TRUE IN f[i] + SumOver(f, ids \ {i})

\* Lines the producer has put so far.
LinesPut ==
    CASE mainPc = "produce" -> mainIdx
      [] mainPc \in {"sentinels", "qjoin", "tjoin", "merge", "done"} -> Len(wcFile)
      [] OTHER -> 0

LinesQueued == Cardinality({k \in 1 .. Len(q) : q[k] # None})

LinesTaken == SumOver(taken, DOMAIN taken)

\* Every line put is either still queued or was taken by one worker.
NoLineLost == LinesPut = LinesQueued + LinesTaken

\* C4: whatever the scheduling, the returned Counter gives every word the
\* number of times tokenize_to_words yields it over the file's lines; each
\* line put on the queue is taken, and counted, by exactly one worker.
C4_WordCountExact ==
    /\ NoLineLost
    /\ mainPc = "done" =>
          /\ total = ExpectedCounts
          /\ LinesTaken = Len(wcFile)
          /\ \A i \in Workers : results[i] = local[i]

\* Two workers each counted a line of a two-line file and the call returned.
C4_Witness ==
    /\ mainPc = "done"
    /\ wcCfg.threads = 2
    /\ Len(wcFile) = 2
    /\ wcFile[1] # wcFile[2]
    /\ taken[1] = 1 /\ taken[2] = 1
    /\ total = ExpectedCounts

SentinelsQueued == Cardinality({k \in 1 .. Len(q) : q[k] = None})

SentinelsTaken ==
    Cardinality({i \in Workers : wpc[i] \in {"sentinel_done", "store", "exited"}})

WordCountReturned ==
    /\ mainPc = "done"
    /\ \A i \in Workers : wpc[i] = "exited" /\ cur[i] = None
    /\ q = << >>
    /\ unfinished = 0

\* C5: under fair scheduling, with at least one thread and a queue capacity
\* of at least one, the call returns: one sentinel per worker is put after
\* the last line, every worker takes exactly one sentinel and exits, q.join()
\* returns and every worker is joined.
C5_WordCountTerminates ==
    (wcCfg.threads >= 1 /\ wcCfg.queue_maxsize >= 1)
    => /\ <>WordCountReturned
       /\ [](mainPc \in {"qjoin", "tjoin", "merge", "done"}
               => SentinelsQueued + SentinelsTaken = wcCfg.threads)
       /\ [](SentinelsQueued > 0 => mainPc # "produce")

\* Two threads behind a queue of capacity one finished a two-line file.
C5_Witness ==
    /\ WordCountReturned
    /\ wcCfg.threads = 2
    /\ wcCfg.queue_maxsize = 1
    /\ Len(wcFile) = 2

\* C6: worker idx writes only results[idx], once, when it exits; no slot is
\* written by two workers; the merge reads a slot only after its worker has
\* stored its final counter there.
C6_OwnSlotOnly ==
    /\ \A s \in DOMAIN writes :
          /\ Len(writes[s]) <= 1
          /\ \A k \in 1 .. Len(writes[s]) : writes[s][k] = s
          /\ (Len(writes[s]) = 1) <=> (wpc[s] = "exited")
    /\ mainPc \in {"merge", "done"} =>
          \A i \in Workers : wpc[i] = "exited" /\ results[i] = local[i]

\* The merge has read the first of two slots, both written by their workers.
C6_Witness ==
    /\ mainPc = "merge"
    /\ mainIdx = 1
    /\ wcCfg.threads = 2
    /\ writes[1] = <<1>> /\ writes[2] = <<2>>
    /\ results[1] # EmptyCounter /\ results[2] # EmptyCounter

\* C7 as stated: the queue never holds more than queue_maxsize items.
C7_QueueWithinMaxsize ==
    mainPc # "idle" => Len(q) <= wcCfg.queue_maxsize

\* C7 as amended: with queue_maxsize >= 1 the queue never holds more than
\* queue_maxsize items and the producer cannot put while it is full; with
\* queue_maxsize <= 0 the queue has no limit; no line is dropped either way.
C7_QueueWithinPositiveMaxsize ==
    /\ wcCfg.queue_maxsize >= 1 =>
          /\ Len(q) <= wcCfg.queue_maxsize
          /\ (Len(q) = wcCfg.queue_maxsize /\ mainPc \in {"produce", "sentinels"}
                /\ mainIdx < (IF mainPc = "produce" THEN Len(wcFile) ELSE wcCfg.threads))
             => ~ENABLED MainStep
    /\ NoLineLost

\* The producer waits with a line in hand behind a full queue of capacity one.
C7_Witness ==
    /\ wcCfg.queue_maxsize = 1
    /\ Len(q) = 1
    /\ mainPc = "produce"
    /\ mainIdx < Len(wcFile)
    /\ ~ENABLED MainStep


(***************************************************************************)
(* Lesson 12: is_prime, split_range, _prime_worker, threaded_primes        *)
(***************************************************************************)
\* math.isqrt
isqrt(n) == CHOOSE r \in 0 .. n : r * r <= n /\ (r + 1) * (r + 1) > n

\* The while loop of is_prime: f = 5, 11, 17, ... up to limit.
RECURSIVE TrialDivision(_, _, _)
TrialDivision(n, f, limit) ==
    IF f > limit THEN TRUE
    ELSE IF n % f = 0 \/ n % (f + 2) = 0 THEN FALSE
    ELSE TrialDivision(n, f + 6, limit)

\* is_prime that stops the trial division one short of sqrt(n).
is_prime_ShortLimit(n) ==
    IF n <= 1 THEN FALSE
    ELSE IF n <= 3 THEN TRUE
    ELSE IF n % 2 = 0 \/ n % 3 = 0 THEN FALSE
    ELSE TrialDivision(n, 5, isqrt(n) - 1)

is_prime(n) ==
    IF n <= 1 THEN FALSE
    ELSE IF n <= 3 THEN TRUE
    ELSE IF n % 2 = 0 \/ n % 3 = 0 THEN FALSE
    ELSE TrialDivision(n, 5, isqrt(n))

Min(a, b) == IF a <= b THEN a ELSE b
Max(a, b) == IF a >= b THEN a ELSE b

\* The for loop of split_range: chunk i (from 0) starts at start.
RECURSIVE SplitLoop(_, _, _, _, _, _)
SplitLoop(i, count, b, r, start, out) ==
    IF i >= count THEN out
    ELSE LET size == b + (IF i < r THEN 1 ELSE 0)
             end == start + size - 1
         IN SplitLoop(i + 1, count, b, r, end + 1, Append(out, <<start, end>>))

\* split_range that makes as many chunks as parts, however short the range.
split_range_FixedCount(lo, hi, parts) ==
    IF parts <= 0 THEN [exc |-> "ValueError", out |-> << >>]
    ELSE LET lo2 == IF hi < lo THEN hi ELSE lo
             hi2 == IF hi < lo THEN lo ELSE hi
             n == hi2 - lo2 + 1
         IN [exc |-> "none",
             out |-> SplitLoop(0, parts, n \div parts, n % parts, lo2, << >>)]

\* split_range that leaves reversed ends as they are.
split_range_NoSwap(lo, hi, parts) ==
    IF parts <= 0 THEN [exc |-> "ValueError", out |-> << >>]
    ELSE IF lo > hi THEN [exc |-> "none", out |-> << >>]
    ELSE LET n == hi - lo + 1
             count == Min(parts, n)
         IN [exc |-> "none",
             out |-> SplitLoop(0, count, n \div count, n % count, lo, << >>)]

\* split_range: [exc, out]; the ends are swapped when hi < lo.
split_range(lo, hi, parts) ==
    IF parts <= 0 THEN [exc |-> "ValueError", out |-> << >>]
    ELSE LET lo2 == IF hi < lo THEN hi ELSE lo
             hi2 == IF hi < lo THEN lo ELSE hi
         IN IF lo2 > hi2 THEN [exc |-> "none", out |-> << >>]
            ELSE LET n == hi2 - lo2 + 1
                     count == Min(parts, n)
                     b == n \div count
                     r == n % count
                 IN [exc |-> "none", out |-> SplitLoop(0, count, b, r, lo2, << >>)]

\* [n for n in range(start, end + 1) if is_prime(n)]
RECURSIVE PrimesFrom(_, _)
PrimesFrom(n, end) ==
    IF n > end THEN << >>
    ELSE (IF is_prime(n) THEN <<n>> ELSE << >>) \o PrimesFrom(n + 1, end)

_prime_worker(job) == PrimesFrom(job[1], job[2])

\* list.sort() on integers: ascending, every element kept.
RECURSIVE InsertSorted(_, _)
InsertSorted(sorted, x) ==
    IF sorted = << >> THEN <<x>>
    ELSE IF x <= Head(sorted) THEN <<x>> \o sorted
    ELSE <<Head(sorted)>> \o InsertSorted(Tail(sorted), x)

RECURSIVE SortAscending(_)
SortAscending(list) ==
    IF list = << >> THEN << >>
    ELSE InsertSorted(SortAscending(Tail(list)), Head(list))

PrimesInit ==
    /\ prArgs \in [lo : PrimeEnds, hi : PrimeEnds, threads : ThreadCounts]
    /\ prPc = "call"
    /\ ranges = << >>
    /\ futures = {}
    /\ primes = << >>

\* threads <= 0 raises; otherwise the jobs are built and all submitted.
SubmitJobs ==
    /\ prPc = "call"
    /\ IF prArgs.threads <= 0
       THEN /\ prPc' = "ValueError"
            /\ UNCHANGED <<ranges, futures>>
       ELSE LET jobs == split_range(prArgs.lo, prArgs.hi, prArgs.threads).out IN
            /\ ranges' = jobs
            /\ futures' = DOMAIN jobs
            /\ prPc' = "collect"
    /\ UNCHANGED <<prArgs, primes>>
    /\ UNCHANGED nonPrimeVars

\* for fut in as_completed(futures): primes.extend(fut.result())
\* The futures complete in any order.
CollectFuture ==
    /\ prPc = "collect"
    /\ \E fut \in futures :
          /\ primes' = primes \o _prime_worker(ranges[fut])
          /\ futures' = futures \ {fut}
    /\ UNCHANGED <<prArgs, prPc, ranges>>
    /\ UNCHANGED nonPrimeVars

\* primes.sort(); return primes
SortAndReturn ==
    /\ prPc = "collect"
    /\ futures = {}
    /\ primes' = SortAscending(primes)
    /\ prPc' = "done"
    /\ UNCHANGED <<prArgs, ranges, futures>>
    /\ UNCHANGED nonPrimeVars

PrimesNext ==
    \/ SubmitJobs
    \/ CollectFuture
    \/ SortAndReturn

(***************************************************************************)
(* Claims about threaded_primes                                            *)
(***************************************************************************)
\* A prime by definition: greater than one, with no divisor in between.
IsPrimeNumber(n) == n > 1 /\ \A d \in 2 .. (n - 1) : n % d # 0

\* The numbers of a set in ascending order.
RECURSIVE Ascending(_)
Ascending(S) ==
    IF S = {} THEN << >>
    ELSE LET m == CHOOSE x \in S : \A y \in S : x <= y IN
         <<m>> \o Ascending(S \ {m})

PrimesOfRange ==
    Ascending({n \in Min(prArgs.lo, prArgs.hi) .. Max(prArgs.lo, prArgs.hi) :
                 IsPrimeNumber(n)})

\* C8: threaded_primes returns exactly the primes of the inclusive range
\* [min(lo,hi), max(lo,hi)], each once, ascending, for every threads >= 1 and
\* every completion order; threads <= 0 raises ValueError.
C8_ThreadedPrimesExact ==
    /\ prPc = "done" => primes = PrimesOfRange
    /\ (prArgs.threads <= 0 /\ prPc # "call") => prPc = "ValueError"
    /\ (prArgs.threads >= 1 /\ prPc # "call") => prPc \in {"collect", "done"}

\* A swapped range reaching past 25, split over two jobs that completed in
\* reverse order, was returned.
C8_Witness ==
    /\ prPc = "done"
    /\ prArgs.hi < prArgs.lo
    /\ prArgs.lo >= 25
    /\ prArgs.hi <= 2
    /\ prArgs.threads = 2
    /\ primes = PrimesOfRange
    /\ Len(primes) >= 9


(***************************************************************************)
(* Lesson 9: BinarySearchTree                                              *)
(***************************************************************************)
Policies == {"ignore", "error", "count"}

NoNode == 0

BSTNode(key) == [key |-> key, left |-> NoNode, right |-> NoNode, count |-> 1]

Tree(r, ns, exc) == [root |-> r, nodes |-> ns, exc |-> exc]

\* The while loop of insert, taking equal keys to the right like greater ones.
RECURSIVE InsertLoop_NoEqualCase(_, _, _, _, _)
InsertLoop_NoEqualCase(policy, r, ns, node, key) ==
    IF key < ns[node].key
    THEN IF ns[node].left = NoNode
         THEN Tree(r, Append([ns EXCEPT ![node].left = Len(ns) + 1], BSTNode(key)), "none")
         ELSE InsertLoop_NoEqualCase(policy, r, ns, ns[node].left, key)
    ELSE IF ns[node].right = NoNode
         THEN Tree(r, Append([ns EXCEPT ![node].right = Len(ns) + 1], BSTNode(key)), "none")
         ELSE InsertLoop_NoEqualCase(policy, r, ns, ns[node].right, key)

\* The while loop of insert, from node.
RECURSIVE InsertLoop(_, _, _, _, _)
InsertLoop(policy, r, ns, node, key) ==
    IF key = ns[node].key
    THEN CASE policy = "ignore" -> Tree(r, ns, "none")
           [] policy = "error" -> Tree(r, ns, "ValueError")
           [] OTHER -> Tree(r, [ns EXCEPT ![node].count = @ + 1], "none")
    ELSE IF key < ns[node].key
    THEN IF ns[node].left = NoNode
         THEN Tree(r, Append([ns EXCEPT ![node].left = Len(ns) + 1], BSTNode(key)), "none")
         ELSE InsertLoop(policy, r, ns, ns[node].left, key)
    ELSE IF ns[node].right = NoNode
         THEN Tree(r, Append([ns EXCEPT ![node].right = Len(ns) + 1], BSTNode(key)), "none")
         ELSE InsertLoop(policy, r, ns, ns[node].right, key)

insert(policy, r, ns, key) ==
    IF r = NoNode
    THEN Tree(Len(ns) + 1, Append(ns, BSTNode(key)), "none")
    ELSE InsertLoop(policy, r, ns, r, key)

\* search that looks at the first node only.
search_RootOnly(ns, node, key) == node # NoNode /\ key = ns[node].key

RECURSIVE search(_, _, _)
search(ns, node, key) ==
    IF node = NoNode THEN FALSE
    ELSE IF key = ns[node].key THEN TRUE
    ELSE search(ns, IF key < ns[node].key THEN ns[node].left ELSE ns[node].right, key)

RECURSIVE inorder(_, _)
inorder(ns, n) ==
    IF n = NoNode THEN << >>
    ELSE inorder(ns, ns[n].left) \o <<ns[n].key>> \o inorder(ns, ns[n].right)

RECURSIVE inorder_with_counts(_, _)
inorder_with_counts(ns, n) ==
    IF n = NoNode THEN << >>
    ELSE inorder_with_counts(ns, ns[n].left)
         \o << <<ns[n].key, ns[n].count>> >>
         \o inorder_with_counts(ns, ns[n].right)

Keys == 1 .. MaxKey

BstInit ==
    /\ on_duplicate \in Policies
    /\ root = NoNode
    /\ nodes = << >>
    /\ bstCall = NoCall
    /\ bstPre = [root |-> NoNode, nodes |-> << >>]
    /\ bstExc = "none"
    /\ inserted = [k \in Keys |-> 0]

InsertCall ==
    /\ SumOver(inserted, Keys) < MaxInserts
    /\ \E key \in Keys :
          LET t == insert(on_duplicate, root, nodes, key) IN
          /\ root' = t.root
          /\ nodes' = t.nodes
          /\ bstExc' = t.exc
          /\ bstPre' = [root |-> root, nodes |-> nodes]
          /\ bstCall' = [op |-> "insert", key |-> key]
          /\ inserted' = [inserted EXCEPT ![key] = @ + 1]
    /\ UNCHANGED on_duplicate
    /\ UNCHANGED nonBstVars

\* search and inorder read the tree and leave it as it is.
SearchCall ==
    /\ bstCall.op # "search"
    /\ \E key \in Keys :
          bstCall' = [op |-> "search", key |-> key,
                      found |-> search(nodes, root, key)]
    /\ bstPre' = [root |-> root, nodes |-> nodes]
    /\ bstExc' = "none"
    /\ UNCHANGED <<on_duplicate, root, nodes, inserted>>
    /\ UNCHANGED nonBstVars

BstNext ==
    \/ InsertCall
    \/ SearchCall

(***************************************************************************)
(* Claims about BinarySearchTree                                           *)
(***************************************************************************)
KeysOf(ns) == {ns[i].key : i \in DOMAIN ns}

NodeOf(ns, key) == CHOOSE i \in DOMAIN ns : ns[i].key = key

DuplicateInsert == bstCall.op = "insert" /\ bstCall.key \in KeysOf(bstPre.nodes)

TreeUnchanged == root = bstPre.root /\ nodes = bstPre.nodes

\* The keys inserted so far, ascending, each with the number of insert calls.
InsertedCounts ==
    LET ks == Ascending({k \in Keys : inserted[k] > 0}) IN
    [i \in 1 .. Len(ks) |-> <<ks[i], inserted[ks[i]]>>]

\* C9: inserting a key that is already in the tree follows on_duplicate:
\* 'ignore' leaves the tree unchanged, 'error' raises ValueError and leaves
\* the tree unchanged, 'count' adds one to the existing node's count and adds
\* no node, so inorder_with_counts gives every key its number of inserts.
C9_DuplicatePolicy ==
    /\ (DuplicateInsert /\ on_duplicate = "ignore")
          => bstExc = "none" /\ TreeUnchanged
    /\ (DuplicateInsert /\ on_duplicate = "error")
          => bstExc = "ValueError" /\ TreeUnchanged
    /\ (DuplicateInsert /\ on_duplicate = "count")
          => /\ bstExc = "none"
             /\ root = bstPre.root
             /\ Len(nodes) = Len(bstPre.nodes)
             /\ LET n == NodeOf(bstPre.nodes, bstCall.key) IN
                nodes = [bstPre.nodes EXCEPT ![n].count = @ + 1]
    /\ on_duplicate = "count"
          => inorder_with_counts(nodes, root) = InsertedCounts

\* A key below the root was inserted a third time into a counting tree that
\* holds another key as well.
C9_Witness ==
    /\ DuplicateInsert
    /\ on_duplicate = "count"
    /\ inserted[bstCall.key] = 3
    /\ Len(nodes) >= 2
    /\ nodes[root].key # bstCall.key
    /\ inorder_with_counts(nodes, root) = InsertedCounts

\* The keys insert has been called with so far.
InsertedKeys == {k \in Keys : inserted[k] > 0}

\* C20: after any sequence of insert calls, under any on_duplicate policy,
\* inorder() yields the distinct keys inserted so far in strictly ascending
\* order, and search(k) returns True exactly when k has been inserted.
C20_InorderSortedSearchExact ==
    LET keys == inorder(nodes, root) IN
    /\ {keys[i] : i \in DOMAIN keys} = InsertedKeys
    /\ \A i, j \in DOMAIN keys : i < j => keys[i] < keys[j]
    /\ \A k \in Keys : search(nodes, root, k) <=> k \in InsertedKeys
    /\ bstCall.op = "search" => (bstCall.found <=> bstCall.key \in InsertedKeys)

\* One key was inserted twice, and search found a key two levels below the
\* root.
C20_Witness ==
    /\ bstCall.op = "search"
    /\ bstCall.found
    /\ Len(inorder(nodes, root)) = 3
    /\ \E k \in Keys : inserted[k] >= 2
    /\ \E n \in DOMAIN nodes :
          /\ nodes[n].key = bstCall.key
          /\ n # root
          /\ n # nodes[root].left
          /\ n # nodes[root].right


(***************************************************************************)
(* Lesson 15: RosterMember and RosterDatabase                              *)
(***************************************************************************)
\* The limits of RosterMember.__post_init__.
MaxNameLen == 100
MaxSpeciesLen == 50
MaxAge == 1000

\* Strings are sequences of characters.
Kira == <<"K", "i", "r", "a">>
Odo == <<"O", "d", "o">>
Human == <<"H", "u", "m", "a", "n">>
Blank == <<" ">>
LongName == [i \in 1 .. (MaxNameLen + 1) |-> "x"]

Whitespace == {" ", "\t", "\n"}

\* not s.strip(): nothing but whitespace.
StripsToEmpty(str) == \A i \in DOMAIN str : str[i] \in Whitespace

\* RosterMember.__post_init__ accepts the values.
ValidMember(name, species, age) ==
    /\ ~StripsToEmpty(name)
    /\ Len(name) <= MaxNameLen
    /\ ~StripsToEmpty(species)
    /\ Len(species) <= MaxSpeciesLen
    /\ 0 <= age /\ age <= MaxAge

\* RosterMember.from_row: the constructor validates the stored values.
from_row(id, row) ==
    IF ValidMember(row.Name, row.Species, row.Age)
    THEN [exc |-> "none", found |-> TRUE, id |-> id]
    ELSE [exc |-> "ValueError", found |-> FALSE, id |-> id]

read_by_id(table, member_id) ==
    IF member_id \in DOMAIN table
    THEN from_row(member_id, table[member_id])
    ELSE [exc |-> "none", found |-> FALSE, id |-> member_id]

\* read_all: from_row on every row of SELECT ... ORDER BY Name.  The order of
\* rows of equal Name is left to SQLite, so only the rows returned are kept.
read_all(table) ==
    IF \E id \in DOMAIN table : from_row(id, table[id]).exc # "none"
    THEN [exc |-> "ValueError", ids |-> {}]
    ELSE [exc |-> "none", ids |-> DOMAIN table]

Db(table, seq, exc, ret) == [roster |-> table, seq |-> seq, exc |-> exc, ret |-> ret]

\* create: INSERT, commit, member.id = lastrowid.  AUTOINCREMENT gives one
\* more than the largest id ever given.
create(table, seq, member) ==
    LET id == Max(seq, 0) + 1 IN
    Db([i \in DOMAIN table \cup {id} |->
          IF i = id
          THEN [Name |-> member.name, Species |-> member.species, Age |-> member.age]
          ELSE table[i]],
       id, "none", id)

FieldMapping == {"name", "species", "age"}

\* The row after UPDATE Roster SET <the fields of updates> WHERE id = ?
Updated(row, updates) ==
    [Name |-> IF "name" \in DOMAIN updates THEN updates.name ELSE row.Name,
     Species |-> IF "species" \in DOMAIN updates THEN updates.species ELSE row.Species,
     Age |-> IF "age" \in DOMAIN updates THEN updates.age ELSE row.Age]

\* update: the UPDATE is committed before the updated member is read back.
update(table, seq, member_id, updates) ==
    LET member == read_by_id(table, member_id) IN
    IF member.exc # "none" THEN Db(table, seq, member.exc, 0)
    ELSE IF ~member.found THEN Db(table, seq, "DatabaseError", 0)
    ELSE IF DOMAIN updates \ FieldMapping # {} THEN Db(table, seq, "ValueError", 0)
    ELSE IF DOMAIN updates = {} THEN Db(table, seq, "ValueError", 0)
    ELSE LET committed == [table EXCEPT ![member_id] = Updated(@, updates)]
             updated_member == read_by_id(committed, member_id)
         IN Db(committed, seq, updated_member.exc, 0)

delete(table, seq, member_id) ==
    LET member == read_by_id(table, member_id) IN
    IF member.exc # "none" THEN Db(table, seq, member.exc, 0)
    ELSE IF ~member.found THEN Db(table, seq, "DatabaseError", 0)
    ELSE Db([i \in DOMAIN table \ {member_id} |-> table[i]], seq, "none", 0)

\* The values callers pass.
NewNames == {Kira, Odo, Blank, LongName}
NewAges == {30, MaxAge + 1}
UpdateSets ==
    { << >>,
      [rank |-> 1],
      [name |-> Odo],
      [name |-> Blank],
      [age |-> MaxAge],
      [age |-> MaxAge + 1],
      [name |-> Kira, age |-> MaxAge + 1] }
MemberIds == 1 .. (MaxCreates + 1)

DbInit ==
    /\ roster = << >>
    /\ sqlite_sequence = 0
    /\ dbCall = NoCall
    /\ dbPre = << >>
    /\ dbExc = "none"
    /\ dbRet = 0

\* RosterMember(name, species, age) and then db.create(member): the
\* constructor raises ValueError for invalid values and nothing is stored.
CreateCall ==
    /\ sqlite_sequence < MaxCreates
    /\ \E name \in NewNames, age \in NewAges :
          LET out == IF ValidMember(name, Human, age)
                     THEN create(roster, sqlite_sequence,
                                 [name |-> name, species |-> Human, age |-> age])
                     ELSE Db(roster, sqlite_sequence, "ValueError", 0)
          IN /\ roster' = out.roster
             /\ sqlite_sequence' = out.seq
             /\ dbExc' = out.exc
             /\ dbRet' = out.ret
             /\ dbCall' = [op |-> "create", name |-> name, age |-> age]
    /\ dbPre' = roster
    /\ UNCHANGED nonDbVars

UpdateCall ==
    /\ \E member_id \in MemberIds, updates \in UpdateSets :
          LET out == update(roster, sqlite_sequence, member_id, updates) IN
          /\ roster' = out.roster
          /\ sqlite_sequence' = out.seq
          /\ dbExc' = out.exc
          /\ dbRet' = out.ret
          /\ dbCall' = [op |-> "update", member_id |-> member_id,
                        fields |-> DOMAIN updates]
    /\ dbPre' = roster
    /\ UNCHANGED nonDbVars

DeleteCall ==
    /\ \E member_id \in MemberIds :
          LET out == delete(roster, sqlite_sequence, member_id) IN
          /\ roster' = out.roster
          /\ sqlite_sequence' = out.seq
          /\ dbExc' = out.exc
          /\ dbRet' = out.ret
          /\ dbCall' = [op |-> "delete", member_id |-> member_id]
    /\ dbPre' = roster
    /\ UNCHANGED nonDbVars

DbNext ==
    \/ CreateCall
    \/ UpdateCall
    \/ DeleteCall

(***************************************************************************)
(* Claims about RosterDatabase                                             *)
(***************************************************************************)
\* The last call was create with a valid member whose name a row already had.
DuplicateNameCreate ==
    /\ dbCall.op = "create"
    /\ ValidMember(dbCall.name, Human, dbCall.age)
    /\ \E id \in DOMAIN dbPre : dbPre[id].Name = dbCall.name

\* C10: creating a member whose name equals that of an existing row
\* succeeds, the new row's id differs from every existing row's id, and
\* read_all afterwards returns both rows.
C10_DuplicateNamesPermitted ==
    DuplicateNameCreate =>
       /\ dbExc = "none"
       /\ dbRet \notin DOMAIN dbPre
       /\ dbRet \in DOMAIN roster
       /\ roster[dbRet].Name = dbCall.name
       /\ read_all(roster).exc = "none"
       /\ (DOMAIN dbPre \cup {dbRet}) \subseteq read_all(roster).ids

\* C13: whenever update raises (unknown member id: DatabaseError; unknown
\* field name or empty update set: ValueError; values invalid for a
\* RosterMember: ValueError), the Roster table is unchanged: the stored row
\* keeps its previous values.
C13_FailedUpdateChangesNothing ==
    (dbCall.op = "update" /\ dbExc # "none") => roster = dbPre

(***************************************************************************)
(* ToDoList (lesson 10)                                                    *)
(***************************************************************************)
\* str.strip(): the text without its leading and trailing whitespace.
RECURSIVE LStrip(_)
LStrip(str) ==
    IF str # << >> /\ Head(str) \in Whitespace THEN LStrip(Tail(str)) ELSE str

RECURSIVE RStrip(_)
RStrip(str) ==
    IF str # << >> /\ str[Len(str)] \in Whitespace
    THEN RStrip(SubSeq(str, 1, Len(str) - 1))
    ELSE str

Strip(str) == RStrip(LStrip(str))

\* Titles a user types: a plain one, one with blanks around it, a blank one
\* and the empty one.
Titles == { <<"X">>, <<" ", "Y", " ">>, <<" ">>, << >> }

\* Task(id, title): __post_init__ rejects a blank title and strips the rest;
\* the status starts as TODO.
Task(title) ==
    IF title = << >> \/ Strip(title) = << >>
    THEN [exc |-> "ValueError"]
    ELSE [exc |-> "none", task |-> [title |-> Strip(title), status |-> "TODO"]]

\* What a ToDoList method leaves behind and gives back.
ToDo(tasks, next, modified, ret) ==
    [tasks |-> tasks, next_id |-> next, modified |-> modified, ret |-> ret]

\* ToDoList.add_task: the Task is built first, so a rejected title changes
\* nothing; otherwise it is stored under _next_id, which then moves on.
add_task(tasks, next, modified, title) ==
    LET t == Task(title) IN
    IF t.exc # "none"
    THEN ToDo(tasks, next, modified, [exc |-> t.exc])
    ELSE ToDo([id \in DOMAIN tasks \cup {next} |->
                  IF id = next THEN t.task ELSE tasks[id]],
              next + 1, TRUE, [exc |-> "none", id |-> next])

\* mark_complete that flips the status of a task that is already DONE.
mark_complete_Toggle(tasks, next, modified, task_id) ==
    IF task_id \notin DOMAIN tasks
    THEN ToDo(tasks, next, modified, [ok |-> FALSE, msg |-> "Task not found"])
    ELSE ToDo([tasks EXCEPT ![task_id].status =
                  IF @ = "DONE" THEN "TODO" ELSE "DONE"],
              next, TRUE, [ok |-> TRUE, msg |-> "Task marked as complete"])

\* ToDoList.mark_complete.
mark_complete(tasks, next, modified, task_id) ==
    IF task_id \notin DOMAIN tasks
    THEN ToDo(tasks, next, modified, [ok |-> FALSE, msg |-> "Task not found"])
    ELSE IF tasks[task_id].status = "DONE"
    THEN ToDo(tasks, next, modified,
              [ok |-> FALSE, msg |-> "Task already completed"])
    ELSE ToDo([tasks EXCEPT ![task_id].status = "DONE"], next, TRUE,
              [ok |-> TRUE, msg |-> "Task marked as complete"])

\* ToDoList.delete_task.
delete_task(tasks, next, modified, task_id) ==
    IF task_id \in DOMAIN tasks
    THEN ToDo([id \in DOMAIN tasks \ {task_id} |-> tasks[id]], next, TRUE,
              [removed |-> TRUE])
    ELSE ToDo(tasks, next, modified, [removed |-> FALSE])

\* The ids a caller passes: those given out so far, 0 and one never given out.
TaskIds == 0 .. MaxTasks + 1

\* No todo_data.json yet.
NoFile == [exists |-> FALSE]

\* ToDoList.load_from_file of a path that does not exist: ToDoList().
TodoInit ==
    /\ _tasks = << >>
    /\ _next_id = 1
    /\ _modified = FALSE
    /\ todoFile = NoFile
    /\ todoCall = NoCall
    /\ todoPre = << >>
    /\ todoRet = [exc |-> "none"]

TodoApply(call, r) ==
    /\ todoCall' = call
    /\ todoPre' = _tasks
    /\ _tasks' = r.tasks
    /\ _next_id' = r.next_id
    /\ _modified' = r.modified
    /\ todoRet' = r.ret

AddTaskCall ==
    /\ _next_id <= MaxTasks
    /\ \E title \in Titles :
          TodoApply([op |-> "add_task", title |-> title],
                    add_task(_tasks, _next_id, _modified, title))
    /\ UNCHANGED todoFile
    /\ UNCHANGED nonTodoVars

MarkCompleteCall ==
    /\ \E task_id \in TaskIds :
          TodoApply([op |-> "mark_complete", task_id |-> task_id],
                    mark_complete(_tasks, _next_id, _modified, task_id))
    /\ UNCHANGED todoFile
    /\ UNCHANGED nonTodoVars

DeleteTaskCall ==
    /\ \E task_id \in TaskIds :
          TodoApply([op |-> "delete_task", task_id |-> task_id],
                    delete_task(_tasks, _next_id, _modified, task_id))
    /\ UNCHANGED todoFile
    /\ UNCHANGED nonTodoVars

\* save_to_file: next_id and every task go to the file; _modified is cleared.
SaveToFile ==
    /\ todoFile' = [exists |-> TRUE, next_id |-> _next_id, tasks |-> _tasks]
    /\ TodoApply([op |-> "save_to_file"],
                 ToDo(_tasks, _next_id, FALSE, [exc |-> "none"]))
    /\ UNCHANGED nonTodoVars

\* todo_cli started again: load_from_file builds a new ToDoList from the file
\* (an empty one when there is no file).
LoadFromFile ==
    /\ TodoApply([op |-> "load_from_file"],
                 IF todoFile.exists
                 THEN ToDo(todoFile.tasks, todoFile.next_id, FALSE,
                           [exc |-> "none"])
                 ELSE ToDo(<< >>, 1, FALSE, [exc |-> "none"]))
    /\ UNCHANGED todoFile
    /\ UNCHANGED nonTodoVars

TodoNext ==
    \/ AddTaskCall
    \/ MarkCompleteCall
    \/ DeleteTaskCall
    \/ SaveToFile
    \/ LoadFromFile

(***************************************************************************)
(* ToDoList: the claim                                                     *)
(***************************************************************************)
IsMarkComplete == todoCall.op = "mark_complete"

\* What the last mark_complete call gave back and did, by the case it met.
MarkCompleteOutcome ==
    IsMarkComplete =>
       LET id == todoCall.task_id IN
       /\ id \notin DOMAIN todoPre
             => /\ todoRet = [ok |-> FALSE, msg |-> "Task not found"]
                /\ _tasks = todoPre
       /\ (id \in DOMAIN todoPre /\ todoPre[id].status = "TODO")
             => /\ todoRet = [ok |-> TRUE, msg |-> "Task marked as complete"]
                /\ _tasks = [todoPre EXCEPT ![id].status = "DONE"]
       /\ (id \in DOMAIN todoPre /\ todoPre[id].status = "DONE")
             => /\ todoRet = [ok |-> FALSE, msg |-> "Task already completed"]
                /\ _tasks = todoPre

\* An id is given out once: every stored task has an id below _next_id.
IdsAreFresh == \A id \in DOMAIN _tasks : id < _next_id

\* In one step of one ToDoList no DONE task goes back to TODO.  (A step that
\* loads the file builds another ToDoList.)
StatusOnlyForward ==
    todoCall'.op # "load_from_file"
    => \A id \in DOMAIN _tasks \cap DOMAIN _tasks' :
          _tasks[id].status = "DONE" => _tasks'[id].status = "DONE"

\* C11: mark_complete returns (False, 'Task not found') and changes nothing
\* for an unknown id, sets a TODO task to DONE and returns (True, 'Task
\* marked as complete'), returns (False, 'Task already completed') and
\* changes nothing for a DONE task; over any sequence of operations on a
\* ToDoList a task's status only moves from TODO to DONE, never back.
C11_MarkCompleteOnlyForward ==
    /\ [](MarkCompleteOutcome /\ IdsAreFresh)
    /\ [][StatusOnlyForward]_vars

\* mark_complete was called on a task that was already DONE, after another
\* task had been deleted.
C11_Witness ==
    /\ IsMarkComplete
    /\ todoCall.task_id \in DOMAIN todoPre
    /\ todoPre[todoCall.task_id].status = "DONE"
    /\ todoRet = [ok |-> FALSE, msg |-> "Task already completed"]
    /\ \E id \in 1 .. _next_id - 1 : id \notin DOMAIN _tasks

(***************************************************************************)
(* BooksDatabase (lesson 14)                                               *)
(***************************************************************************)
\* str.lower() on the letters the titles are made of.
Lower(str) == [i \in DOMAIN str |-> Casefold(str[i])]

\* The earliest publication year Book accepts.
MinYear == 1000

\* The year datetime.now() gives while the script runs.
CurrentYear == 2026

\* Titles, authors and years a user types.
BookTitles == { <<"A">>, <<"a", " ">>, <<"B">> }
BookAuthors == { <<"b">> }
BookYears == { MinYear - 1, MinYear, CurrentYear + 5, CurrentYear + 6 }

\* Book.__post_init__ accepts the values (rating left at None).
ValidBook(book) ==
    /\ ~StripsToEmpty(book.title)
    /\ ~StripsToEmpty(book.author)
    /\ MinYear <= book.year /\ book.year <= CurrentYear + 5

\* Book(id=0, title, author, year, genre) as the menu builds it.
Book(title, author, year) ==
    [id |-> 0, title |-> title, author |-> author, year |-> year]

\* BooksDatabase.read_by_id: the position of the first book with the id, 0
\* for None.
BookIndex(books_, book_id) ==
    IF \E i \in DOMAIN books_ : books_[i].id = book_id
    THEN CHOOSE i \in DOMAIN books_ :
            /\ books_[i].id = book_id
            /\ \A j \in 1 .. i - 1 : books_[j].id # book_id
    ELSE 0

\* BooksDatabase.find_by_title_author found a book: the comparison ignores
\* case and surrounding whitespace.
find_by_title_author(books_, title, author) ==
    \E i \in DOMAIN books_ :
       /\ Strip(Lower(books_[i].title)) = Strip(Lower(title))
       /\ Strip(Lower(books_[i].author)) = Strip(Lower(author))

\* What a BooksDatabase method leaves behind: the list, _next_id, the file
\* and how the call ended.
Bk(books_, next, file, exc) ==
    [books |-> books_, next_id |-> next, file |-> file, exc |-> exc]

\* BooksDatabase.save: the file gets the list, or the write fails and save
\* raises RuntimeError with the file as it was.
save(books_, file, write_fails) ==
    IF write_fails THEN [file |-> file, exc |-> "RuntimeError"]
    ELSE [file |-> books_, exc |-> "none"]

\* BooksDatabase.create: duplicate check, then the id is assigned, the book
\* appended and the list saved; nothing is undone when save raises.
book_create(books_, next, file, book, write_fails) ==
    IF find_by_title_author(books_, book.title, book.author)
    THEN Bk(books_, next, file, "ValueError")
    ELSE LET added == Append(books_, [book EXCEPT !.id = next])
             saved == save(added, file, write_fails)
         IN  Bk(added, next + 1, saved.file, saved.exc)

\* The fields **updates may name; hasattr(book, field) fails for the last.
BookFields == {"title", "year", "pages"}

\* BooksDatabase.update: the fields are set one by one, the book validated
\* and the list saved; any exception restores original_data and becomes a
\* ValueError.  updates is [fields, title, year]: the names passed and the
\* values passed for title and year.
book_update(books_, next, file, book_id, updates, write_fails) ==
    LET i == BookIndex(books_, book_id) IN
    IF i = 0 THEN Bk(books_, next, file, "ValueError")
    ELSE LET original_data == books_[i]
             changed == [original_data EXCEPT
                            !.title = IF "title" \in updates.fields
                                      THEN updates.title ELSE @,
                            !.year = IF "year" \in updates.fields
                                     THEN updates.year ELSE @]
             updated == [books_ EXCEPT ![i] = changed]
             restored == [updated EXCEPT ![i] = original_data]
         IN  IF \E f \in updates.fields : f \notin DOMAIN original_data
             THEN Bk(restored, next, file, "ValueError")
             ELSE IF ~ValidBook(changed)
             THEN Bk(restored, next, file, "ValueError")
             ELSE LET saved == save(updated, file, write_fails) IN
                  IF saved.exc # "none"
                  THEN Bk(restored, next, saved.file, "ValueError")
                  ELSE Bk(updated, next, saved.file, "none")

\* list.remove at a position.
RemoveAt(s, i) == SubSeq(s, 1, i - 1) \o SubSeq(s, i + 1, Len(s))

\* BooksDatabase.delete: the book is removed and the list saved; nothing is
\* undone when save raises.
book_delete(books_, next, file, book_id, write_fails) ==
    LET i == BookIndex(books_, book_id) IN
    IF i = 0 THEN Bk(books_, next, file, "ValueError")
    ELSE LET removed == RemoveAt(books_, i)
             saved == save(removed, file, write_fails)
         IN  Bk(removed, next, saved.file, saved.exc)

\* The update sets a caller passes.
BookUpdates ==
    [fields : SUBSET BookFields, title : BookTitles \cup {Blank},
     year : BookYears]

BookIds == 0 .. MaxBooks + 1

\* BooksDatabase(filepath) with no file at filepath.
BooksInit ==
    /\ books = << >>
    /\ books_next_id = 1
    /\ booksFile = << >>
    /\ bkCall = NoCall
    /\ bkPre = << >>
    /\ bkExc = "none"

BooksApply(call, r) ==
    /\ bkCall' = call
    /\ bkPre' = books
    /\ books' = r.books
    /\ books_next_id' = r.next_id
    /\ booksFile' = r.file
    /\ bkExc' = r.exc

BookCreateCall ==
    /\ books_next_id <= MaxBooks
    /\ \E title \in BookTitles, author \in BookAuthors,
          year \in {y \in BookYears : MinYear <= y /\ y <= CurrentYear + 5},
          write_fails \in BOOLEAN :
          BooksApply([op |-> "create", write_fails |-> write_fails],
                     book_create(books, books_next_id, booksFile,
                                 Book(title, author, year), write_fails))
    /\ UNCHANGED nonBooksVars

BookUpdateCall ==
    /\ \E book_id \in BookIds, updates \in BookUpdates,
          write_fails \in BOOLEAN :
          BooksApply([op |-> "update", write_fails |-> write_fails],
                     book_update(books, books_next_id, booksFile, book_id,
                                 updates, write_fails))
    /\ UNCHANGED nonBooksVars

BookDeleteCall ==
    /\ \E book_id \in BookIds, write_fails \in BOOLEAN :
          BooksApply([op |-> "delete", write_fails |-> write_fails],
                     book_delete(books, books_next_id, booksFile, book_id,
                                 write_fails))
    /\ UNCHANGED nonBooksVars

BooksNext ==
    \/ BookCreateCall
    \/ BookUpdateCall
    \/ BookDeleteCall

(***************************************************************************)
(* BooksDatabase: the claim                                                *)
(***************************************************************************)
\* C12: when create, update or delete raises (duplicate title and author,
\* unknown id, invalid field name, value failing the Book validation, or
\* save failing to write the file), the in-memory list of books and the
\* field values of every book are the same as before the call.
C12_ModificationsAtomic ==
    (bkCall.op \in {"create", "update", "delete"} /\ bkExc # "none")
    => books = bkPre

(***************************************************************************)
(* API rate limiting (lesson 14)                                           *)
(***************************************************************************)
\* API_RATE_LIMIT: requests per minute.
API_RATE_LIMIT == 60

\* The length of the window in seconds: calls with now - t < 60 are kept.
RateWindow == 60

\* How far the clock moves between two calls of the program, in seconds.
ClockSteps == {RateWindow \div 2, RateWindow}

\* [t for t in calls if now - t < 60]
Recent(calls, t_now) == SelectSeq(calls, LAMBDA t : t_now - t < RateWindow)

\* min() of a non-empty list of times.
Oldest(calls) ==
    CHOOSE t \in {calls[i] : i \in DOMAIN calls} :
       \A i \in DOMAIN calls : t <= calls[i]

\* check_rate_limit(api_name) at time t_now: the old calls are dropped; with
\* API_RATE_LIMIT calls left it returns False, else it records the call and
\* returns True.
check_rate_limit(calls, t_now) ==
    LET kept == Recent(calls, t_now) IN
    IF Len(kept) >= API_RATE_LIMIT
    THEN [calls |-> kept, ret |-> FALSE]
    ELSE [calls |-> Append(kept, t_now), ret |-> TRUE]

\* wait_for_rate_limit(api_name) at time t_now: returns at once when
\* check_rate_limit passed; else sleeps until a second after the oldest call
\* leaves the window and returns.  Gives the tracker and the time of return.
wait_for_rate_limit(calls, t_now) ==
    LET checked == check_rate_limit(calls, t_now) IN
    IF checked.ret
    THEN [calls |-> checked.calls, ret |-> TRUE, time |-> t_now]
    ELSE LET oldest == Oldest(checked.calls)
             wait_time == RateWindow - (t_now - oldest)
         IN  [calls |-> checked.calls, ret |-> FALSE,
              time |-> IF wait_time > 0 THEN t_now + wait_time + 1 ELSE t_now]

RateInit ==
    /\ now = 0
    /\ API_CALL_TRACKER = << >>
    /\ issued = << >>
    /\ rlPre = << >>
    /\ rlTime = 0
    /\ rlRet = TRUE

\* time.time() moves on between two requests.
ClockTick ==
    /\ \E d \in ClockSteps :
          /\ now + d <= MaxTime
          /\ now' = now + d
    /\ UNCHANGED <<API_CALL_TRACKER, issued, rlPre, rlTime, rlRet>>
    /\ UNCHANGED nonRateVars

\* fetch_weather past its cache: wait_for_rate_limit("openweather"), then
\* the request goes out.
FetchRequest ==
    /\ now <= MaxTime
    /\ LET w == wait_for_rate_limit(API_CALL_TRACKER, now) IN
       /\ rlPre' = API_CALL_TRACKER
       /\ rlTime' = now
       /\ API_CALL_TRACKER' = w.calls
       /\ rlRet' = w.ret
       /\ now' = w.time
       /\ issued' = Append(Recent(issued, w.time), w.time)
    /\ UNCHANGED nonRateVars

RateNext ==
    \/ ClockTick
    \/ FetchRequest

(***************************************************************************)
(* API rate limiting: the claim                                            *)
(***************************************************************************)
\* The requests issued in the 60 seconds up to now.
IssuedInWindow == Len(Recent(issued, now))

\* C14: no more than API_RATE_LIMIT requests are issued within any
\* 60-second window when every request is preceded by wait_for_rate_limit,
\* the requests issued after a wait included; check_rate_limit returns
\* False and records nothing when API_RATE_LIMIT calls are already recorded
\* in the last 60 seconds.
C14_RateLimitKept ==
    /\ IssuedInWindow <= API_RATE_LIMIT
    /\ rlRet <=> Len(Recent(rlPre, rlTime)) < API_RATE_LIMIT
    /\ ~rlRet => API_CALL_TRACKER = Recent(rlPre, rlTime)

(***************************************************************************)
(* MovieRecommendationSystem (lesson 14)                                   *)
(***************************************************************************)
\* No movie: recommend_by_genre returned None.
NoMovie == "None"

\* popular_movies_by_genre: the entry of the genre the callers of the model
\* ask for.
popular_movies_by_genre ==
    [fantasy |-> <<"The Lord of the Rings", "Harry Potter",
                   "Pan's Labyrinth", "Spirited Away">>]

\* The genres a user types: the preset one in two spellings and one that is
\* not in the preset list.
Genres == {"Fantasy", "fantasy", "western"}

\* genre.lower()
GenreLower(genre) == IF genre = "Fantasy" THEN "fantasy" ELSE genre

\* The elements of a list.
Range(s) == {s[i] : i \in DOMAIN s}

\* The candidates of a genre; [] for a genre that is not preset.
CandidateTitles(genre) ==
    IF GenreLower(genre) \in DOMAIN popular_movies_by_genre
    THEN popular_movies_by_genre[GenreLower(genre)]
    ELSE << >>

\* What recommend_by_genre leaves behind and returns.
Rec(history_, ret, reset) == [history |-> history_, ret |-> ret, reset |-> reset]

\* The loop over the shuffled titles: the first title that search_by_title
\* finds and that passes the rating and year filters is appended to the
\* history and returned; None when there is none.  found is that title.
PickFrom(history_, available, found, reset) ==
    IF found \in available
    THEN Rec(Append(history_, found), found, reset)
    ELSE Rec(history_, NoMovie, reset)

\* recommend_by_genre that offers every candidate, seen or not.
recommend_by_genre_KeepSeen(history_, genre, exclude_seen, confirm_reset, found) ==
    LET candidate_titles == CandidateTitles(genre) IN
    IF candidate_titles = << >> THEN Rec(history_, NoMovie, FALSE)
    ELSE PickFrom(history_, Range(candidate_titles), found, FALSE)

\* recommend_by_genre(genre, exclude_seen=...): confirm_reset is the answer
\* to "Reset recommendation history?", found the first suitable title of the
\* shuffled list (NoMovie when no title is suitable).
recommend_by_genre(history_, genre, exclude_seen, confirm_reset, found) ==
    LET candidate_titles == CandidateTitles(genre) IN
    IF candidate_titles = << >> THEN Rec(history_, NoMovie, FALSE)
    ELSE IF exclude_seen
    THEN LET available_titles ==
                SelectSeq(candidate_titles, LAMBDA t : t \notin Range(history_))
         IN  IF available_titles = << >>
             THEN IF confirm_reset
                  THEN PickFrom(<< >>, Range(candidate_titles), found, TRUE)
                  ELSE Rec(history_, NoMovie, FALSE)
             ELSE PickFrom(history_, Range(available_titles), found, FALSE)
    ELSE PickFrom(history_, Range(candidate_titles), found, FALSE)

\* What the shuffle, the API and the filters can make the first suitable
\* title of a genre: any of its candidates, or none of them.
Found(genre) == Range(CandidateTitles(genre)) \cup {NoMovie}

\* MovieRecommendationSystem()
MovieInit ==
    /\ history = << >>
    /\ returned = << >>
    /\ mvCall = NoCall
    /\ mvPre = << >>
    /\ mvRet = NoMovie

\* recommender.recommend_by_genre(...) from the menu or from a caller.
RecommendCall ==
    /\ Len(history) <= MaxHistory
    /\ \E genre \in Genres, exclude_seen \in BOOLEAN, confirm_reset \in BOOLEAN :
       \E found \in Found(genre) :
          LET r == recommend_by_genre(history, genre, exclude_seen,
                                      confirm_reset, found)
          IN  /\ history' = r.history
              /\ mvRet' = r.ret
              /\ mvCall' = [op |-> "recommend_by_genre", genre |-> genre,
                            exclude_seen |-> exclude_seen, reset |-> r.reset]
              /\ returned' = IF r.ret = NoMovie
                             THEN (IF r.reset THEN << >> ELSE returned)
                             ELSE Append(IF r.reset THEN << >> ELSE returned,
                                         r.ret)
    /\ mvPre' = history
    /\ UNCHANGED nonMovieVars

\* Menu entry "Clear history", confirmed by the user.
ClearHistory ==
    /\ history # << >>
    /\ history' = << >>
    /\ returned' = << >>
    /\ mvCall' = [op |-> "clear"]
    /\ mvPre' = history
    /\ mvRet' = NoMovie
    /\ UNCHANGED nonMovieVars

MovieNext ==
    \/ RecommendCall
    \/ ClearHistory

(***************************************************************************)
(* MovieRecommendationSystem: the claim                                    *)
(***************************************************************************)
\* The last call was recommend_by_genre and returned a movie.
Recommended == mvCall.op = "recommend_by_genre" /\ mvRet # NoMovie

\* C15: recommend_by_genre with exclude_seen=True never returns a title that
\* is in the history; over any sequence of calls it returns no title that
\* was returned since the last confirmed reset; and every returned title is
\* appended to the history.
C15_NoRepeatedRecommendation ==
    Recommended =>
       /\ history # << >> /\ history[Len(history)] = mvRet
       /\ history = Append(IF mvCall.reset THEN << >> ELSE mvPre, mvRet)
       /\ mvCall.exclude_seen =>
             /\ mvCall.reset \/ mvRet \notin Range(mvPre)
             /\ mvRet \notin Range(SubSeq(returned, 1, Len(returned) - 1))

\* With all titles of the genre but one in the history, a call that
\* excludes the seen ones returned the remaining title.
C15_Witness ==
    /\ Recommended
    /\ mvCall.exclude_seen /\ ~mvCall.reset
    /\ Cardinality(Range(mvPre)) = Len(CandidateTitles(mvCall.genre)) - 1
    /\ mvRet \notin Range(mvPre)

(***************************************************************************)
(* calculate_age and days_until_next_birthday (lesson 13)                  *)
(***************************************************************************)
\* datetime.date is [year, month, day].
Date(y, m, d) == [year |-> y, month |-> m, day |-> d]

IsLeap(y) == (y % 4 = 0 /\ y % 100 # 0) \/ y % 400 = 0

\* The days of a month of the calendar.
DaysInMonth(y, m) ==
    IF m = 2 THEN (IF IsLeap(y) THEN 29 ELSE 28)
    ELSE IF m \in {4, 6, 9, 11} THEN 30 ELSE 31

\* date.toordinal(): the days from 0001-01-01, counted from 1.
RECURSIVE DaysBeforeMonth(_, _)
DaysBeforeMonth(y, m) ==
    IF m = 1 THEN 0 ELSE DaysBeforeMonth(y, m - 1) + DaysInMonth(y, m - 1)

ToOrdinal(dt) ==
    LET y == dt.year - 1 IN
    y * 365 + (y \div 4) - (y \div 100) + (y \div 400)
      + DaysBeforeMonth(dt.year, dt.month) + dt.day

\* date(y, m, d) raises ValueError for a day the month does not have.
ValidDate(y, m, d) == m \in 1 .. 12 /\ d \in 1 .. DaysInMonth(y, m)

\* (a - b).days
DaysBetween(a, b) == ToOrdinal(a) - ToOrdinal(b)

\* a < b on dates.
DateLess(a, b) == ToOrdinal(a) < ToOrdinal(b)

\* last_day_of_month(y, m): the day before the first day of the next month.
last_day_of_month(y, m) ==
    LET nxt == IF m = 12 THEN Date(y + 1, 1, 1) ELSE Date(y, m + 1, 1)
    IN  nxt.day - 1 + (IF m = 12 THEN DaysInMonth(y, 12) ELSE DaysInMonth(y, m))

\* add_months(d, months): the day is clamped to the last day of the month.
add_months(dt, months) ==
    LET y == dt.year + ((dt.month - 1 + months) \div 12)
        m == ((dt.month - 1 + months) % 12) + 1
    IN  Date(y, m, Min(dt.day, last_day_of_month(y, m)))

\* The oldest age calculate_age accepts, in whole years of 365 days.
MaxAgeYears == 150

\* (a, b) < (c, d) on tuples.
TupleLess(a, b, c, d) == a < c \/ (a = c /\ b < d)

\* calculate_age, up to the place where the months are known: the years
\* and months after the divmod correction, and anniv_this_year.
AgeMonths(birthdate, on) ==
    LET years0 == on.year - birthdate.year
        years1 == IF TupleLess(on.month, on.day, birthdate.month, birthdate.day)
                  THEN years0 - 1 ELSE years0
        anniv_this_year == add_months(birthdate, years1 * 12)
        months0 == (on.year - anniv_this_year.year) * 12
                      + (on.month - anniv_this_year.month)
        months1 == IF on.day < anniv_this_year.day THEN months0 - 1 ELSE months0
        months2 == IF months1 < 0 THEN 0 ELSE months1
    IN  [years |-> IF months2 > 11 THEN years1 + (months2 \div 12) ELSE years1,
         months |-> IF months2 > 11 THEN months2 % 12 ELSE months2,
         anniv_this_year |-> anniv_this_year]

\* calculate_age(birthdate, on_date).
calculate_age(birthdate, on) ==
    IF DateLess(on, birthdate) THEN [exc |-> "ValueError"]
    ELSE IF DaysBetween(on, birthdate) \div 365 > MaxAgeYears
    THEN [exc |-> "ValueError"]
    ELSE LET a == AgeMonths(birthdate, on)
             month_mark == add_months(a.anniv_this_year, a.months)
         IN  [exc |-> "none", years |-> a.years, months |-> a.months,
              days |-> DaysBetween(on, month_mark),
              total_days |-> DaysBetween(on, birthdate)]

\* date(year, birthdate.month, birthdate.day), clamped to the last day of
\* the month when that date does not exist.
BirthdayIn(birthdate, year) ==
    IF ValidDate(year, birthdate.month, birthdate.day)
    THEN Date(year, birthdate.month, birthdate.day)
    ELSE Date(year, birthdate.month, last_day_of_month(year, birthdate.month))

\* days_until_next_birthday(birthdate, from_date).
days_until_next_birthday(birthdate, today) ==
    LET next_bd == BirthdayIn(birthdate, today.year) IN
    IF DateLess(next_bd, today)
    THEN DaysBetween(BirthdayIn(birthdate, today.year + 1), today)
    ELSE DaysBetween(next_bd, today)

\* The dates the callers pass: birthdates in the first quarter of a leap
\* year, reference dates in that year and the years after it, and in the
\* years around the age limit.
BirthYear == 2000
DatesOf(years, months) ==
    { Date(y, m, d) : y \in years, m \in months, d \in 1 .. 31 }
Birthdates ==
    { dt \in DatesOf({BirthYear}, 1 .. 3) : ValidDate(dt.year, dt.month, dt.day) }
OnDates ==
    { dt \in DatesOf(BirthYear .. BirthYear + MaxSpan, 1 .. 12)
               \cup DatesOf({BirthYear + MaxAgeYears, BirthYear + MaxAgeYears + 1}, {1, 2, 12}) :
         ValidDate(dt.year, dt.month, dt.day) }

NoAge == [exc |-> "pending"]

AgeInit ==
    /\ bd \in Birthdates
    /\ on_date \in OnDates
    /\ agePc = "input"
    /\ ageOut = NoAge
    /\ until = -1

\* calculate_age(bd, on_date) is called.
CalculateAge ==
    /\ agePc = "input"
    /\ ageOut' = calculate_age(bd, on_date)
    /\ agePc' = "ageOut"
    /\ UNCHANGED <<bd, on_date, until>>
    /\ UNCHANGED nonAgeVars

\* The birthday countdown: days_until_next_birthday(bd, d).
DaysUntilNextBirthday ==
    /\ agePc = "ageOut"
    /\ until' = days_until_next_birthday(bd, on_date)
    /\ agePc' = "done"
    /\ UNCHANGED <<bd, on_date, ageOut>>
    /\ UNCHANGED nonAgeVars

AgeNext ==
    \/ CalculateAge
    \/ DaysUntilNextBirthday

(***************************************************************************)
(* calculate_age: the claim                                                *)
(***************************************************************************)
\* The birthdays reached by on_date: the years after the birth year whose
\* birthday (29 February clamped to 28 February) is not after on_date.
BirthdaysReached ==
    Cardinality({ y \in bd.year + 1 .. on_date.year :
                     ~DateLess(on_date, BirthdayIn(bd, y)) })

\* on_date is the clamped birthday of a birthdate of 29 February.
ClampedBirthday ==
    /\ bd.month = 2 /\ bd.day = 29
    /\ on_date.month = 2 /\ on_date.day = 28 /\ ~IsLeap(on_date.year)

\* C16: for birthdate <= on_date and an age of at most 150 years the result
\* has 0 <= months <= 11, 0 <= days <= 30 and years equal to the number of
\* birthdays reached; on the clamped birthday of a 29 February birthdate the
\* result is N years, 0 months, 0 days, and days_until_next_birthday is 0.
C16_AgeComponentsInRange ==
    (agePc = "done" /\ ageOut.exc = "none")
    => /\ 0 <= ageOut.months /\ ageOut.months <= 11
       /\ 0 <= ageOut.days /\ ageOut.days <= 30
       /\ ageOut.years = BirthdaysReached
       /\ ClampedBirthday
             => /\ ageOut.months = 0
                /\ ageOut.days = 0
                /\ until = 0

(***************************************************************************)
(* ShoppingCart (lesson 9)                                                 *)
(***************************************************************************)
\* Money is counted in thousandths of the currency unit, so that a unit
\* price may carry a third decimal; total() is in hundredths.
\* The names, unit prices and quantities the callers pass.
CartNames == {"Book", "Pen"}
UnitPrices == {-5, 5, 15}
Quantities == (-1) .. MaxQuantity

\* CartItem(name, unit_price, quantity): __post_init__ accepts the values.
ValidCartItem(unit_price, quantity) == quantity > 0 /\ unit_price >= 0

CartItem(unit_price, quantity) ==
    [unit_price |-> unit_price, quantity |-> quantity]

\* What add_item leaves behind and how it ended.
Cart(items, exc) == [items |-> items, exc |-> exc]

\* dict assignment: self._items[name] = item
PutItem(items, name, item) ==
    [n \in DOMAIN items \cup {name} |-> IF n = name THEN item ELSE items[n]]

\* add_item that gives a repeated item the price of the last call.
add_item_LastPrice(items, strict_price, name, unit_price, quantity) ==
    IF ~ValidCartItem(unit_price,
                      IF name \in DOMAIN items
                      THEN items[name].quantity + quantity ELSE quantity)
    THEN Cart(items, "ValueError")
    ELSE Cart(PutItem(items, name,
                      CartItem(unit_price,
                               IF name \in DOMAIN items
                               THEN items[name].quantity + quantity
                               ELSE quantity)), "none")

\* ShoppingCart.add_item.
add_item(items, strict_price, name, unit_price, quantity) ==
    IF name \in DOMAIN items
    THEN LET item == items[name]
             new_qty == item.quantity + quantity
         IN  IF strict_price /\ item.unit_price # unit_price
             THEN Cart(items, "ValueError")
             ELSE IF new_qty <= 0
             THEN Cart(items, "ValueError")
             ELSE IF ~ValidCartItem(item.unit_price, new_qty)
             THEN Cart(items, "ValueError")
             ELSE Cart(PutItem(items, name, CartItem(item.unit_price, new_qty)),
                       "none")
    ELSE IF ~ValidCartItem(unit_price, quantity)
    THEN Cart(items, "ValueError")
    ELSE Cart(PutItem(items, name, CartItem(unit_price, quantity)), "none")

\* ShoppingCart.remove_item: pop(name, None).
remove_item(items, name) == [n \in DOMAIN items \ {name} |-> items[n]]

\* sum(it.unit_price * it.quantity for it in self._items.values())
RECURSIVE CartSum(_)
CartSum(items) ==
    IF DOMAIN items = {} THEN 0
    ELSE LET n == CHOOSE n \in DOMAIN items : TRUE IN
         items[n].unit_price * items[n].quantity + CartSum(remove_item(items, n))

\* x.quantize(Decimal("0.01"), rounding=ROUND_HALF_UP) of a non-negative
\* amount: the third decimal is dropped, and 5 or more rounds up.
QuantizeHalfUp(x) == (x \div 10) + (IF x % 10 >= 5 THEN 1 ELSE 0)

\* ShoppingCart.total, in hundredths.
cart_total(items) == QuantizeHalfUp(CartSum(items))

\* ShoppingCart(strict_price=...)
CartInit ==
    /\ _items = << >>
    /\ _strict_price \in BOOLEAN
    /\ cartCall = NoCall
    /\ cartPre = << >>
    /\ cartExc = "none"
    /\ cartRet = 0

AddItemCall ==
    /\ \E name \in CartNames, unit_price \in UnitPrices, quantity \in Quantities :
          /\ (name \in DOMAIN _items
                 => _items[name].quantity + quantity <= MaxQuantity)
          /\ LET r == add_item(_items, _strict_price, name, unit_price, quantity)
             IN  /\ _items' = r.items
                 /\ cartExc' = r.exc
                 /\ cartCall' = [op |-> "add_item", name |-> name,
                                 unit_price |-> unit_price, quantity |-> quantity]
    /\ cartPre' = _items
    /\ UNCHANGED <<_strict_price, cartRet>>
    /\ UNCHANGED nonCartVars

RemoveItemCall ==
    /\ \E name \in CartNames :
          /\ _items' = remove_item(_items, name)
          /\ cartCall' = [op |-> "remove_item", name |-> name]
    /\ cartPre' = _items
    /\ cartExc' = "none"
    /\ UNCHANGED <<_strict_price, cartRet>>
    /\ UNCHANGED nonCartVars

TotalCall ==
    /\ cartRet' = cart_total(_items)
    /\ cartCall' = [op |-> "total"]
    /\ cartPre' = _items
    /\ cartExc' = "none"
    /\ UNCHANGED <<_items, _strict_price>>
    /\ UNCHANGED nonCartVars

CartNext ==
    \/ AddItemCall
    \/ RemoveItemCall
    \/ TotalCall

(***************************************************************************)
(* ShoppingCart: the claim                                                 *)
(***************************************************************************)
\* The last call was add_item of a name the cart already had.
RepeatedAdd == cartCall.op = "add_item" /\ cartCall.name \in DOMAIN cartPre

\* The sum of unit_price * quantity over the items, in thousandths.
ItemsValue ==
    SumOver([n \in DOMAIN _items |-> _items[n].unit_price * _items[n].quantity],
            DOMAIN _items)

\* C17: add_item on a name already in the cart accumulates the quantity and
\* keeps the original unit price; with strict_price=True a different unit
\* price raises ValueError and leaves the cart unchanged; a resulting
\* quantity <= 0 raises ValueError and leaves the cart unchanged.  total()
\* is the sum of unit_price * quantity over the items rounded half-up to two
\* decimals.
C17_CartAccumulatesAndTotals ==
    /\ RepeatedAdd =>
          LET old == cartPre[cartCall.name]
              mismatch == _strict_price /\ old.unit_price # cartCall.unit_price
              new_qty == old.quantity + cartCall.quantity
          IN  /\ mismatch => (cartExc = "ValueError" /\ _items = cartPre)
              /\ new_qty <= 0 => (cartExc = "ValueError" /\ _items = cartPre)
              /\ (~mismatch /\ new_qty > 0)
                    => /\ cartExc = "none"
                       /\ _items = [cartPre EXCEPT
                                       ![cartCall.name].quantity = new_qty]
    /\ cartCall.op = "total" =>
          /\ 10 * cartRet - 5 <= ItemsValue
          /\ ItemsValue < 10 * cartRet + 5

\* A cart that is not strict took a repeated item at another price and
\* kept the first price, after total() had rounded a half up.
C17_Witness ==
    /\ RepeatedAdd
    /\ ~_strict_price
    /\ cartPre[cartCall.name].unit_price # cartCall.unit_price
    /\ cartCall.quantity > 0
    /\ cartExc = "none"
    /\ CartSum(cartPre) % 10 = 5
    /\ cartRet = CartSum(cartPre) \div 10 + 1

(***************************************************************************)
(* split_range on its own (lesson 12)                                      *)
(***************************************************************************)
\* The range ends and the numbers of parts a caller passes.
SplitEnds == (-1) .. MaxEnd
SplitParts == (-1) .. MaxParts

NoSplit == [exc |-> "pending", out |-> << >>]

SplitInit ==
    /\ srArgs \in [lo : SplitEnds, hi : SplitEnds, parts : SplitParts]
    /\ srPc = "call"
    /\ srRet = NoSplit

\* split_range(lo, hi, parts) is called and returns or raises.
SplitRangeCall ==
    /\ srPc = "call"
    /\ srRet' = split_range(srArgs.lo, srArgs.hi, srArgs.parts)
    /\ srPc' = "done"
    /\ UNCHANGED srArgs
    /\ UNCHANGED nonSplitVars

SplitNext == SplitRangeCall

(***************************************************************************)
(* split_range: the claims                                                 *)
(***************************************************************************)
\* The ends of the inclusive range and the number of integers in it.
RangeLow == Min(srArgs.lo, srArgs.hi)
RangeHigh == Max(srArgs.lo, srArgs.hi)
RangeSize == RangeHigh - RangeLow + 1

\* The number of integers in the i-th pair returned.
ChunkSize(i) == srRet.out[i][2] - srRet.out[i][1] + 1

\* The pairs returned that hold the integer k.
ChunksHolding(k) ==
    {i \in 1 .. Len(srRet.out) : srRet.out[i][1] <= k /\ k <= srRet.out[i][2]}

BankIdle ==
    /\ lesson = 9
    /\ bank9 = EmptyBank
    /\ bank10 = EmptyBank
    /\ bankCall = NoCall
    /\ bankPre = EmptyBank
    /\ bankExc = "none"

WcIdle ==
    /\ wcFile = << >>
    /\ wcCfg = [threads |-> 0, queue_maxsize |-> 0]
    /\ q = << >>
    /\ unfinished = 0
    /\ mainPc = "idle"
    /\ mainIdx = 0
    /\ wpc = << >>
    /\ cur = << >>
    /\ local = << >>
    /\ results = << >>
    /\ total = EmptyCounter
    /\ taken = << >>
    /\ writes = << >>

PrimesIdle ==
    /\ prArgs = [lo |-> 0, hi |-> 0, threads |-> 0]
    /\ prPc = "idle"
    /\ ranges = << >>
    /\ futures = {}
    /\ primes = << >>

BstIdle ==
    /\ on_duplicate = "ignore"
    /\ root = NoNode
    /\ nodes = << >>
    /\ bstCall = NoCall
    /\ bstPre = [root |-> NoNode, nodes |-> << >>]
    /\ bstExc = "none"
    /\ inserted = << >>

DbIdle ==
    /\ roster = << >>
    /\ sqlite_sequence = 0
    /\ dbCall = NoCall
    /\ dbPre = << >>
    /\ dbExc = "none"
    /\ dbRet = 0

TodoIdle ==
    /\ _tasks = << >>
    /\ _next_id = 1
    /\ _modified = FALSE
    /\ todoFile = [exists |-> FALSE]
    /\ todoCall = NoCall
    /\ todoPre = << >>
    /\ todoRet = [exc |-> "none"]

BooksIdle ==
    /\ books = << >>
    /\ books_next_id = 1
    /\ booksFile = << >>
    /\ bkCall = NoCall
    /\ bkPre = << >>
    /\ bkExc = "none"

RateIdle ==
    /\ now = 0
    /\ API_CALL_TRACKER = << >>
    /\ issued = << >>
    /\ rlPre = << >>
    /\ rlTime = 0
    /\ rlRet = TRUE

MovieIdle ==
    /\ history = << >>
    /\ returned = << >>
    /\ mvCall = NoCall
    /\ mvPre = << >>
    /\ mvRet = "None"

AgeIdle ==
    /\ bd = [year |-> 2000, month |-> 1, day |-> 1]
    /\ on_date = [year |-> 2000, month |-> 1, day |-> 1]
    /\ agePc = "idle"
    /\ ageOut = [exc |-> "pending"]
    /\ until = -1

CartIdle ==
    /\ _items = << >>
    /\ _strict_price = TRUE
    /\ cartCall = NoCall
    /\ cartPre = << >>
    /\ cartExc = "none"
    /\ cartRet = 0

SplitIdle ==
    /\ srArgs = [lo |-> 0, hi |-> 0, parts |-> 0]
    /\ srPc = "idle"
    /\ srRet = [exc |-> "pending", out |-> << >>]

Init == BankInit /\ WcIdle /\ PrimesIdle /\ BstIdle /\ DbIdle /\ TodoIdle /\
    BooksIdle /\ RateIdle /\ MovieIdle /\ AgeIdle /\ CartIdle /\ SplitIdle

\* The initial states of the other programs, each with the rest left idle.
InitWordCount == WcInit /\ BankIdle /\ PrimesIdle /\ BstIdle /\ DbIdle /\
    TodoIdle /\ BooksIdle /\ RateIdle /\ MovieIdle /\ AgeIdle /\ CartIdle /\
    SplitIdle

InitPrimes == PrimesInit /\ BankIdle /\ WcIdle /\ BstIdle /\ DbIdle /\
    TodoIdle /\ BooksIdle /\ RateIdle /\ MovieIdle /\ AgeIdle /\ CartIdle /\
    SplitIdle

InitBst == BstInit /\ BankIdle /\ WcIdle /\ PrimesIdle /\ DbIdle /\ TodoIdle /\
    BooksIdle /\ RateIdle /\ MovieIdle /\ AgeIdle /\ CartIdle /\ SplitIdle

InitRoster == DbInit /\ BankIdle /\ WcIdle /\ PrimesIdle /\ BstIdle /\
    TodoIdle /\ BooksIdle /\ RateIdle /\ MovieIdle /\ AgeIdle /\ CartIdle /\
    SplitIdle

InitTodo == TodoInit /\ BankIdle /\ WcIdle /\ PrimesIdle /\ BstIdle /\
    DbIdle /\ BooksIdle /\ RateIdle /\ MovieIdle /\ AgeIdle /\ CartIdle /\
    SplitIdle

InitBooks == BooksInit /\ BankIdle /\ WcIdle /\ PrimesIdle /\ BstIdle /\
    DbIdle /\ TodoIdle /\ RateIdle /\ MovieIdle /\ AgeIdle /\ CartIdle /\
    SplitIdle

InitRate == RateInit /\ BankIdle /\ WcIdle /\ PrimesIdle /\ BstIdle /\
    DbIdle /\ TodoIdle /\ BooksIdle /\ MovieIdle /\ AgeIdle /\ CartIdle /\
    SplitIdle

InitMovie == MovieInit /\ BankIdle /\ WcIdle /\ PrimesIdle /\ BstIdle /\
    DbIdle /\ TodoIdle /\ BooksIdle /\ RateIdle /\ AgeIdle /\ CartIdle /\
    SplitIdle

InitAge == AgeInit /\ BankIdle /\ WcIdle /\ PrimesIdle /\ BstIdle /\ DbIdle /\
    TodoIdle /\ BooksIdle /\ RateIdle /\ MovieIdle /\ CartIdle /\ SplitIdle

InitCart == CartInit /\ BankIdle /\ WcIdle /\ PrimesIdle /\ BstIdle /\
    DbIdle /\ TodoIdle /\ BooksIdle /\ RateIdle /\ MovieIdle /\ AgeIdle /\
    SplitIdle

InitSplit == SplitInit /\ BankIdle /\ WcIdle /\ PrimesIdle /\ BstIdle /\
    DbIdle /\ TodoIdle /\ BooksIdle /\ RateIdle /\ MovieIdle /\ AgeIdle /\
    CartIdle

\* The banks with Decimal arithmetic that never signals.
SpecBank == Init /\ [][BankNext]_vars

\* The banks where the Decimal addition of the credit may signal.
SpecBankFault == Init /\ [][BankFaultNext]_vars

\* threaded_word_count, any scheduling of the threads.
SpecWordCount == InitWordCount /\ [][WcNext]_vars

\* threaded_word_count when no thread that can run is left waiting for ever.
FairSpecWordCount ==
    /\ SpecWordCount
    /\ WF_vars(MainStep)
    /\ \A i \in 1 .. MaxThreads : WF_vars(WorkerStep(i))

\* threaded_primes, any completion order of the futures.
SpecPrimes == InitPrimes /\ [][PrimesNext]_vars

\* One BinarySearchTree under a sequence of calls.
SpecBst == InitBst /\ [][BstNext]_vars

\* One RosterDatabase under a sequence of calls.
SpecRoster == InitRoster /\ [][DbNext]_vars

\* One todo_data.json and the ToDoList objects built from it.
SpecTodo == InitTodo /\ [][TodoNext]_vars

\* One BooksDatabase under a sequence of calls, where writing the file may
\* fail.
SpecBooks == InitBooks /\ [][BooksNext]_vars

\* The requests to one API, each preceded by wait_for_rate_limit.
SpecRateLimit == InitRate /\ [][RateNext]_vars

\* One MovieRecommendationSystem under a sequence of menu choices.
SpecMovies == InitMovie /\ [][MovieNext]_vars

\* calculate_age and days_until_next_birthday on a pair of dates.
SpecAge == InitAge /\ [][AgeNext]_vars

\* A ShoppingCart under add_item, remove_item and total.
SpecCart == InitCart /\ [][CartNext]_vars

\* One call of split_range on arguments of the caller's choice.
SpecSplit == InitSplit /\ [][SplitNext]_vars

Spec == SpecBank

=============================================================================
